---- MODULE Spec2Model ----
(***************************************************************************)
(* Model of the TFVC extension core: FilesetManager                        *)
(* (src/services/filesetManager.ts) and, of TfvcProvider (tfvcProvider.ts),*)
(* the auto-checkout watcher, the command history, executeTfCommand, the   *)
(* parsers of tool output, the auto-checkout subscriptions set up on       *)
(* activation (extension.ts) and the diagnostics report.                   *)
(*                                                                         *)
(* JavaScript runs handlers on one event loop: an event handler together   *)
(* with the promise continuations it releases is one atomic step, and the  *)
(* only suspension points are the awaits on a spawned subprocess.  Each    *)
(* action below is therefore one event-loop turn.                          *)
(***************************************************************************)
EXTENDS Integers, Sequences, FiniteSets, TLC

VARIABLES
    pendingChanges,     \* FilesetManager.pendingChanges: Map in insertion order, as a sequence of entries
    fired,              \* calls of _onDidChangeFileset.fire() made by the last fileset operation
    disposed,           \* _onDidChangeFileset.dispose() has been called
    last,               \* the last FilesetManager operation: its name, arguments and what it found
    pendingCheckouts,   \* TfvcProvider.pendingCheckouts: Set<string>
    handlers,           \* one record per editor signal delivered to handleFileChange
    commandHistory,     \* TfvcProvider.commandHistory
    appended,           \* every entry ever passed to commandHistory.push, in order
    varied,             \* number of recorded entries that differ from the default payload
    pure,               \* one application of a parser to one tool output
    exec,               \* one invocation of executeTfCommand: its process, buffers and promise
    config,             \* the tfvc.* settings of the workspace
    providers,          \* the TfvcProvider instances of the activated extension
    signal,             \* the last editor signal and the handleFileChange calls it made
    diag,               \* one run of generateDiagnosticsReport: its position, sections and sub-queries
    snapshot,           \* one array returned by a FilesetManager getter, and what it holds now
    userCommand,        \* one run of the check-in or create-shelveset command handler
    operation,          \* the last TfvcProvider operation and the history it found
    ext,                \* the extension host: workspace folder, activation, registered commands
    probe,              \* one TfvcProvider's collectionUrl and the environments it built
    refreshes,          \* the calls of refreshPendingChanges, each with its position and result
    merging             \* one call of TfvcProvider.merge: its position, tool runs and result

vars == <<pendingChanges, fired, disposed, last, pendingCheckouts, handlers,
          commandHistory, appended, varied, pure, exec, config, providers, signal,
          diag, snapshot, userCommand, operation, ext, probe, refreshes,
          merging>>

filesetVars == <<pendingChanges, fired, disposed, last, snapshot>>
watcherVars == <<pendingCheckouts, handlers>>
historyVars == <<commandHistory, appended, varied>>
configVars == <<config, providers, signal>>
extraVars == <<userCommand, operation, ext, probe, refreshes, merging>>
restVars == <<pure, exec, configVars, diag, extraVars>>

----------------------------------------------------------------------------
(* Bounds *)

MaxChanges == 2         \* longest argument list given to setPendingChanges
MaxTriggers == 3        \* editor signals delivered in one run
MaxFairTriggers == 2    \* editor signals delivered in one run checked for liveness
MaxAppends == 102       \* recordCommand calls in one run
MaxVaried == 1          \* recorded entries whose payload is not the default one

Paths == {"a", "b"}
Statuses == {"edit", "add"}

----------------------------------------------------------------------------
(* Generic helpers *)

Range(s) == {s[i] : i \in 1..Len(s)}

SeqsUpTo(S, n) == UNION {[1..k -> S] : k \in 0..n}

\* String.prototype.includes on strings held as sequences of characters
Includes(s, kw) ==
    \E i \in 1..(Len(s) - Len(kw) + 1) : SubSeq(s, i, i + Len(kw) - 1) = kw

\* an environment variable that is not set
Unset == [set |-> FALSE, value |-> <<>>]

----------------------------------------------------------------------------
(* FilesetManager *)

PendingChange == [path : Paths, status : Statuses, isIncluded : BOOLEAN]

\* Map.prototype.has
MapHas(m, p) == \E i \in 1..Len(m) : m[i].path = p

\* index of the entry of key p
MapIndex(m, p) == CHOOSE i \in 1..Len(m) : m[i].path = p

\* Map.prototype.get (only used where MapHas holds)
MapGet(m, p) == m[MapIndex(m, p)]

\* Map.prototype.set: an existing key keeps its position, a new key goes last
MapSet(m, p, v) ==
    IF MapHas(m, p)
    THEN [m EXCEPT ![MapIndex(m, p)] = v]
    ELSE Append(m, v)

\* the object literal { ...change, isIncluded: true } of setPendingChanges
SpreadKeepIncluded(change) == change

SpreadIncluded(change) == [change EXCEPT !.isIncluded = TRUE]

\* the loop of setPendingChanges over `changes`, starting from the cleared map
RECURSIVE SetEach(_, _)
SetEach(m, changes) ==
    IF changes = <<>>
    THEN m
    ELSE SetEach(MapSet(m, Head(changes).path, SpreadIncluded(Head(changes))),
                 Tail(changes))

\* Each operation below yields the map it leaves, the number of fire() calls
\* it makes, the map as it stands at each of these calls, and whether it
\* raised.

\* a mutation that is complete when fire() is called
Fired(map) == [map |-> map, fired |-> 1, seen |-> <<map>>, threw |-> FALSE]

\* no mutation and no fire()
Untouched(m) == [map |-> m, fired |-> 0, seen |-> <<>>, threw |-> FALSE]

\* setPendingChanges(changes) that fires between clear() and the loop
SetPendingChangesFireFirst(changes) ==
    [map |-> SetEach(<<>>, changes), fired |-> 1, seen |-> << <<>> >>,
     threw |-> FALSE]

\* setPendingChanges(changes) without the clear(): the new entries are set
\* over the entries the map holds
SetPendingChangesKeepOld(changes) == Fired(SetEach(pendingChanges, changes))

\* setPendingChanges(changes): clear(), one set per change, fire()
SetPendingChangesResult(changes) == Fired(SetEach(<<>>, changes))

\* toggleFileInclusion(path) without the `if (change)` guard
ToggleUnguarded(m, p) ==
    IF MapHas(m, p)
    THEN Fired(MapSet(m, p, [MapGet(m, p) EXCEPT !.isIncluded = ~MapGet(m, p).isIncluded]))
    ELSE [Untouched(m) EXCEPT !.threw = TRUE]

\* toggleFileInclusion(path)
ToggleFileInclusionResult(m, p) ==
    IF MapHas(m, p)
    THEN Fired(MapSet(m, p, [MapGet(m, p) EXCEPT !.isIncluded = ~MapGet(m, p).isIncluded]))
    ELSE Untouched(m)

\* setFileInclusion(path, included) writing the flag of every entry
SetEveryInclusion(m, p, included) ==
    IF MapHas(m, p)
    THEN Fired([i \in 1..Len(m) |-> [m[i] EXCEPT !.isIncluded = included]])
    ELSE Untouched(m)

\* setFileInclusion(path, included)
SetFileInclusionResult(m, p, included) ==
    IF MapHas(m, p)
    THEN Fired(MapSet(m, p, [MapGet(m, p) EXCEPT !.isIncluded = included]))
    ELSE Untouched(m)

getIncludedFiles(m) == SelectSeq(m, LAMBDA change : change.isIncluded)

ExcludedUnfiltered(m) == m

getExcludedFiles(m) == SelectSeq(m, LAMBDA change : ~change.isIncluded)

getAllFiles(m) == m

\* pendingChanges.get(path)?.isIncluded ?? false
isFileIncluded(m, p) ==
    IF MapHas(m, p)
    THEN [value |-> MapGet(m, p).isIncluded, threw |-> FALSE]
    ELSE [value |-> FALSE, threw |-> FALSE]

\* clear() that forgets to notify
ClearSilent(m) == Untouched(<<>>)

\* clear(): pendingChanges.clear(), fire()
ClearResult(m) == Fired(<<>>)

\* dispose() that notifies like clear() before it releases the channel
DisposeAfterFire(m) == Fired(<<>>)

\* dispose(): _onDidChangeFileset.dispose(), pendingChanges.clear()
DisposeResult(m) == Untouched(<<>>)

\* the listeners of onDidChangeFileset, in subscription order
Subscribers == <<"tree", "view">>

\* EventEmitter.fire(), once per element of `seen`: forEach calls the
\* listeners in order, and each of them reads the fileset as it stands
Deliver(listeners, seen) ==
    [k \in 1..(Len(seen) * Len(listeners)) |->
        [listener |-> listeners[((k - 1) % Len(listeners)) + 1],
         map |-> seen[((k - 1) \div Len(listeners)) + 1]]]

\* no getter result is held
NoSnapshot ==
    [taken |-> FALSE, getter |-> "none", returned |-> <<>>, now |-> <<>>,
     live |-> {}]

\* What a FilesetManager operation does to an array a getter returned
\* earlier.  The array is a new one, its elements are the objects stored in
\* the map: toggleFileInclusion and setFileInclusion assign to the stored
\* object, setPendingChanges, clear and dispose drop the stored objects (and
\* setPendingChanges stores new ones).
Aliased(s, op, p, m) ==
    IF ~s.taken THEN s
    ELSE IF op \in {"toggleFileInclusion", "setFileInclusion"}
    THEN IF p \in s.live /\ MapHas(m, p)
         THEN [s EXCEPT !.now = [i \in 1..Len(s.now) |->
                                   IF s.now[i].path = p THEN MapGet(m, p)
                                   ELSE s.now[i]]]
         ELSE s
    ELSE [s EXCEPT !.live = {}]

NoOp == [op |-> "none", path |-> "", included |-> FALSE, changes |-> <<>>,
         before |-> <<>>, excluded |-> {}, threw |-> FALSE, delivered |-> <<>>]

\* the paths of the excluded entries of a map
ExcludedPaths(m) == {m[i].path : i \in {j \in 1..Len(m) : ~m[j].isIncluded}}

\* the effect of one FilesetManager operation on the state; `last` keeps the
\* operation's arguments, the paths excluded before it and, for the
\* operations that read the map, the map before it
Apply(r, op, p, included, changes) ==
    /\ pendingChanges' = r.map
    /\ fired' = r.fired
    /\ last' = [op |-> op, path |-> p, included |-> included,
                changes |-> changes,
                before |-> IF op = "setPendingChanges" THEN <<>> ELSE pendingChanges,
                excluded |-> ExcludedPaths(pendingChanges),
                threw |-> r.threw,
                delivered |-> Deliver(IF disposed THEN <<>> ELSE Subscribers, r.seen)]
    /\ snapshot' = Aliased(snapshot, op, p, r.map)

Idle == UNCHANGED <<watcherVars, historyVars, restVars>>

setPendingChanges(changes) ==
    /\ Apply(SetPendingChangesResult(changes), "setPendingChanges", "", FALSE, changes)
    /\ UNCHANGED disposed
    /\ Idle

toggleFileInclusion(p) ==
    /\ Apply(ToggleFileInclusionResult(pendingChanges, p), "toggleFileInclusion", p, FALSE, <<>>)
    /\ UNCHANGED disposed
    /\ Idle

setFileInclusion(p, included) ==
    /\ Apply(SetFileInclusionResult(pendingChanges, p, included), "setFileInclusion", p, included, <<>>)
    /\ UNCHANGED disposed
    /\ Idle

clear ==
    /\ Apply(ClearResult(pendingChanges), "clear", "", FALSE, <<>>)
    /\ UNCHANGED disposed
    /\ Idle

dispose ==
    /\ Apply(DisposeResult(pendingChanges), "dispose", "", FALSE, <<>>)
    /\ disposed' = TRUE
    /\ Idle

FilesetInit ==
    /\ pendingChanges = <<>>
    /\ fired = 0
    /\ disposed = FALSE
    /\ last = NoOp
    /\ snapshot = NoSnapshot

WatcherIdle ==
    /\ pendingCheckouts = {}
    /\ handlers = <<>>

HistoryIdle ==
    /\ commandHistory = <<>>
    /\ appended = <<>>
    /\ varied = 0

NoValue == [type |-> "none"]

\* no invocation yet
NotSpawned ==
    [phase |-> "none", args |-> <<>>, suppressErrors |-> FALSE, output |-> <<>>,
     error |-> <<>>, chunks |-> 0, promise |-> "pending", value |-> NoValue,
     log |-> <<>>, first |-> "none", code |-> 0]

ExecIdle == exec = NotSpawned

PureIdle ==
    pure = [fn |-> "none", lines |-> <<>>, input |-> <<>>, changes |-> <<>>,
            status |-> "none"]

\* the defaults of package.json
DefaultConfig ==
    [autoCheckout |-> TRUE, autoCheckoutOnSave |-> FALSE,
     useVisualStudioCredentials |-> TRUE]

NoSignal == [kind |-> "none", path |-> "", scheme |-> "", handlings |-> 0]

ConfigIdle ==
    /\ config = DefaultConfig
    /\ providers = <<>>
    /\ signal = NoSignal

NoReport ==
    [pc |-> "idle", sections |-> <<>>, report |-> <<>>, returned |-> FALSE,
     outcomes |-> <<>>,
     env |-> [VSINSTALLDIR |-> Unset, VSSDK140Install |-> Unset, DevEnvDir |-> Unset]]

DiagIdle == diag = NoReport

NoCommand ==
    [name |-> "none", pc |-> "idle", includedFiles |-> <<>>, answers |-> <<>>,
     files |-> <<>>, included |-> <<>>, tool |-> "none", messages |-> <<>>,
     refresh |-> "none"]

\* no TfvcProvider operation has been called
NoCall ==
    [op |-> "none", tool |-> "none", count |-> 0, before |-> <<>>,
     outcome |-> [event |-> "none", code |-> 0, stdout |-> <<>>, stderr |-> <<>>]]

\* the extension before activate() runs, in a window with a workspace folder
NotActivated ==
    [workspaceRoot |-> "/ws", activation |-> "none", error |-> NoValue,
     listeners |-> <<>>, spawned |-> <<>>, registered |-> {},
     invoked |-> "none", ran |-> FALSE]

NoProbe == [pc |-> "none"]

\* merge() has not been called
NoMerge == [pc |-> "none"]

ExtraIdle ==
    /\ userCommand = NoCommand
    /\ operation = NoCall
    /\ ext = NotActivated
    /\ probe = NoProbe
    /\ refreshes = <<>>
    /\ merging = NoMerge

RestIdle == PureIdle /\ ExecIdle /\ ConfigIdle /\ DiagIdle /\ ExtraIdle

FilesetStart == FilesetInit /\ WatcherIdle /\ HistoryIdle /\ RestIdle

FilesetNext ==
    \/ \E changes \in SeqsUpTo(PendingChange, MaxChanges) : setPendingChanges(changes)
    \/ \E p \in Paths : toggleFileInclusion(p)
    \/ \E p \in Paths, included \in BOOLEAN : setFileInclusion(p, included)
    \/ clear
    \/ dispose

FilesetSpec == FilesetStart /\ [][FilesetNext]_vars

----------------------------------------------------------------------------
(* FilesetManager: properties *)

\* positions of `changes` that name path p
Occurrences(changes, p) == {i \in 1..Len(changes) : changes[i].path = p}

\* the last element of `changes` that names path p
LastFor(changes, p) ==
    changes[CHOOSE i \in Occurrences(changes, p) :
                \A j \in Occurrences(changes, p) : j <= i]

\* C6: after setPendingChanges(changes), from any prior state, the fileset
\* holds exactly one entry per distinct path of `changes` and no other entry,
\* the entry of a path carries the status of the last element of `changes`
\* for that path, every entry has isIncluded = TRUE whatever the input flags
\* and the earlier exclusions were, and calling setPendingChanges(changes)
\* again leaves the same fileset.
C6_SetPendingChangesReplaces ==
    last.op = "setPendingChanges" =>
        /\ \A p \in Paths :
              Cardinality(Occurrences(pendingChanges, p)) =
                  IF Occurrences(last.changes, p) = {} THEN 0 ELSE 1
        /\ \A i \in 1..Len(pendingChanges) :
              /\ pendingChanges[i].isIncluded = TRUE
              /\ pendingChanges[i].status =
                     LastFor(last.changes, pendingChanges[i].path).status
        /\ SetPendingChangesResult(last.changes).map = pendingChanges

\* C6 witness: a path excluded before, listed twice with different statuses
\* and with isIncluded = FALSE in the input.
C6_Witness ==
    /\ last.op = "setPendingChanges"
    /\ Len(last.changes) = 2
    /\ last.changes[1].path = last.changes[2].path
    /\ last.changes[1].status # last.changes[2].status
    /\ ~last.changes[2].isIncluded
    /\ last.changes[1].path \in last.excluded
    /\ Len(pendingChanges) = 1

\* C7: for a path absent from the fileset isFileIncluded is false, and
\* toggleFileInclusion / setFileInclusion on it do not raise, create no entry,
\* leave the fileset as it was and fire no notification.
C7_AbsentPathNoOp ==
    /\ \A p \in Paths :
          ~MapHas(pendingChanges, p) =>
              isFileIncluded(pendingChanges, p) = [value |-> FALSE, threw |-> FALSE]
    /\ (/\ last.op \in {"toggleFileInclusion", "setFileInclusion"}
        /\ ~MapHas(last.before, last.path))
           => /\ ~last.threw
              /\ pendingChanges = last.before
              /\ ~MapHas(pendingChanges, last.path)
              /\ fired = 0

\* C7 witness: setFileInclusion(p, true) on a non-empty fileset without p.
C7_Witness ==
    /\ last.op = "setFileInclusion"
    /\ last.included
    /\ last.before # <<>>
    /\ ~MapHas(last.before, last.path)
    /\ ~isFileIncluded(pendingChanges, last.path).value

\* the entries of a snapshot, as a set
Entries(files) == {files[i] : i \in 1..Len(files)}

\* C8: in every reachable state getIncludedFiles() and getExcludedFiles() are
\* disjoint, their union is getAllFiles(), and their lengths add up to the
\* length of getAllFiles().
C8_IncludedExcludedPartition ==
    /\ Entries(getIncludedFiles(pendingChanges))
           \cap Entries(getExcludedFiles(pendingChanges)) = {}
    /\ Entries(getIncludedFiles(pendingChanges))
           \cup Entries(getExcludedFiles(pendingChanges))
           = Entries(getAllFiles(pendingChanges))
    /\ Len(getIncludedFiles(pendingChanges)) + Len(getExcludedFiles(pendingChanges))
           = Len(getAllFiles(pendingChanges))

\* C8 witness: a fileset with an included and an excluded entry.
C8_Witness ==
    /\ Len(getIncludedFiles(pendingChanges)) = 1
    /\ Len(getExcludedFiles(pendingChanges)) = 1
    /\ last.op = "toggleFileInclusion"

\* C10: clear() leaves the fileset empty and fires exactly one change
\* notification, whatever the fileset held before (also nothing).
C10_ClearEmptiesAndFiresOnce ==
    last.op = "clear" =>
        /\ getAllFiles(pendingChanges) = <<>>
        /\ fired = 1
        /\ ~last.threw

\* C10 witness: clear() on a fileset of two entries.
C10_Witness ==
    /\ last.op = "clear"
    /\ Len(last.before) = 2
    /\ pendingChanges = <<>>

\* C17: for a path present in the fileset, toggleFileInclusion negates its
\* flag and setFileInclusion(path, b) sets it to b; either fires one
\* notification and leaves the paths, their order, every status and the flag
\* of every other path as they were.
C17_InclusionChangeFrame ==
    (/\ last.op \in {"toggleFileInclusion", "setFileInclusion"}
     /\ MapHas(last.before, last.path))
        => /\ ~last.threw
           /\ fired = 1
           /\ Len(pendingChanges) = Len(last.before)
           /\ \A i \in 1..Len(last.before) :
                  /\ pendingChanges[i].path = last.before[i].path
                  /\ pendingChanges[i].status = last.before[i].status
                  /\ last.before[i].path # last.path =>
                         pendingChanges[i].isIncluded = last.before[i].isIncluded
                  /\ last.before[i].path = last.path =>
                         pendingChanges[i].isIncluded =
                             IF last.op = "toggleFileInclusion"
                             THEN ~last.before[i].isIncluded
                             ELSE last.included

\* C17 witness: setFileInclusion(p, true) on an excluded p while the other
\* path of the fileset is excluded too and stays so.
C17_Witness ==
    /\ last.op = "setFileInclusion"
    /\ last.included
    /\ Len(last.before) = 2
    /\ \A i \in 1..2 : ~last.before[i].isIncluded
    /\ \E i \in 1..2 : pendingChanges[i].path = last.path /\ pendingChanges[i].isIncluded
    /\ \E i \in 1..2 : pendingChanges[i].path # last.path /\ ~pendingChanges[i].isIncluded

\* the mutating operations that notify
Notifying == {"setPendingChanges", "toggleFileInclusion", "setFileInclusion", "clear"}

\* C26: the notifications of a mutating operation are delivered within the
\* operation, once per fire() to every subscriber in subscription order, and
\* each subscriber then reads the fileset the operation leaves: never a
\* partially replaced map, never a flag not yet updated
C26_DeliveredAfterCompleteMutation ==
    (last.op \in Notifying /\ ~disposed) =>
        /\ Len(last.delivered) = fired * Len(Subscribers)
        /\ \A k \in 1..Len(last.delivered) :
              /\ last.delivered[k].map = pendingChanges
              /\ last.delivered[k].listener = Subscribers[((k - 1) % Len(Subscribers)) + 1]

\* C26 witness: a fileset with an excluded entry is replaced by two entries
\* and both subscribers are told.
C26_Witness ==
    /\ last.op = "setPendingChanges"
    /\ last.excluded # {}
    /\ Len(pendingChanges) = 2
    /\ Len(last.delivered) = 2
    /\ last.delivered[2].listener = "view"

\* C28: dispose() empties the fileset and fires nothing, getAllFiles() is
\* empty right after it, and no operation that follows it notifies a
\* subscriber
C28_DisposeReleasesChannel ==
    /\ last.op = "dispose" =>
          /\ disposed
          /\ fired = 0
          /\ getAllFiles(pendingChanges) = <<>>
    /\ disposed => last.delivered = <<>>

\* C28 witness: after dispose() the fileset is filled again and fire() is
\* called, with nobody listening.
C28_Witness ==
    /\ disposed
    /\ last.op = "setPendingChanges"
    /\ fired = 1
    /\ pendingChanges # <<>>

----------------------------------------------------------------------------
(* TfvcProvider.executeTfCommand: the outcome of one spawned tf process *)

Kw_edit == <<"e", "d", "i", "t">>
Kw_add == <<"a", "d", "d">>
Kw_delete == <<"d", "e", "l", "e", "t", "e">>
Kw_rename == <<"r", "e", "n", "a", "m", "e">>

\* what the process did: it closed with an exit code after writing stdout and
\* stderr, or it could not be spawned (the 'error' event)
Closed(code, out, err) == [event |-> "close", code |-> code, stdout |-> out, stderr |-> err]
SpawnError == [event |-> "error", code |-> -1, stdout |-> <<>>, stderr |-> <<>>]

ExitCodes == {0, 1}

ParseFileStatusAddFirst(stdout) ==
    IF Includes(stdout, Kw_add) THEN "add"
    ELSE IF Includes(stdout, Kw_edit) THEN "edit"
    ELSE IF Includes(stdout, Kw_delete) THEN "delete"
    ELSE IF Includes(stdout, Kw_rename) THEN "rename"
    ELSE "none"

\* the keyword chain of getFileStatus over the stdout of `status <path>`
ParseFileStatus(stdout) ==
    IF Includes(stdout, Kw_edit) THEN "edit"
    ELSE IF Includes(stdout, Kw_add) THEN "add"
    ELSE IF Includes(stdout, Kw_delete) THEN "delete"
    ELSE IF Includes(stdout, Kw_rename) THEN "rename"
    ELSE "none"

\* String.prototype.toLowerCase, character by character
UpperCase ==
    <<"A", "B", "C", "D", "E", "F", "G", "H", "I", "J", "K", "L", "M", "N",
      "O", "P", "Q", "R", "S", "T", "U", "V", "W", "X", "Y", "Z">>

LowerCase ==
    <<"a", "b", "c", "d", "e", "f", "g", "h", "i", "j", "k", "l", "m", "n",
      "o", "p", "q", "r", "s", "t", "u", "v", "w", "x", "y", "z">>

LowerOf ==
    [c \in Range(UpperCase) |->
        LowerCase[CHOOSE i \in 1..Len(UpperCase) : UpperCase[i] = c]]

LowerChar(c) == IF c \in DOMAIN LowerOf THEN LowerOf[c] ELSE c

ToLowerCase(s) == [i \in 1..Len(s) |-> LowerChar(s[i])]

\* the regex classes \s and . (which matches no line terminator)
IsSpace(c) == c \in {" ", "\t", "\r", "\n"}
IsDot(c) == c \notin {"\r", "\n"}

\* String.prototype.trim
RECURSIVE TrimStart(_)
TrimStart(s) == IF s # <<>> /\ IsSpace(Head(s)) THEN TrimStart(Tail(s)) ELSE s

RECURSIVE TrimEnd(_)
TrimEnd(s) ==
    IF s # <<>> /\ IsSpace(s[Len(s)]) THEN TrimEnd(SubSeq(s, 1, Len(s) - 1)) ELSE s

TrimNone(s) == s

Trim(s) == TrimEnd(TrimStart(s))

\* String.prototype.split on a one-character separator
RECURSIVE Split(_, _)
Split(s, sep) ==
    IF \E i \in 1..Len(s) : s[i] = sep
    THEN LET i == CHOOSE i \in 1..Len(s) :
                      s[i] = sep /\ \A j \in 1..(i - 1) : s[j] # sep
         IN <<SubSeq(s, 1, i - 1)>> \o Split(SubSeq(s, i + 1, Len(s)), sep)
    ELSE <<s>>

StatusVerbs == {Kw_add, Kw_edit, Kw_delete, Kw_rename}

\* /^(add|edit|delete|rename)\s+(.+)$/i with the first k characters taken by
\* the verb group and the next j by \s+: the rest is (.+) up to the end of input
Matches(line, k, j) ==
    /\ j >= 1
    /\ k + j < Len(line)
    /\ \A i \in (k + 1)..(k + j) : IsSpace(line[i])
    /\ \A i \in (k + j + 1)..Len(line) : IsDot(line[i])
    /\ ToLowerCase(SubSeq(line, 1, k)) \in StatusVerbs

VerbLengths == {Len(v) : v \in StatusVerbs}

\* line.match(...): \s+ is greedy and gives characters back only when the
\* rest of the pattern cannot match otherwise
Match(line) ==
    IF \E k \in VerbLengths, j \in 1..Len(line) : Matches(line, k, j)
    THEN LET k == CHOOSE k \in VerbLengths : \E j \in 1..Len(line) : Matches(line, k, j)
             j == CHOOSE j \in 1..Len(line) :
                      /\ Matches(line, k, j)
                      /\ \A j2 \in (j + 1)..Len(line) : ~Matches(line, k, j2)
         IN [matched |-> TRUE, verb |-> SubSeq(line, 1, k),
             rest |-> SubSeq(line, k + j + 1, Len(line))]
    ELSE [matched |-> FALSE, verb |-> <<>>, rest |-> <<>>]

\* the loop of parsePendingChanges over the lines
RECURSIVE ParseLines(_)
ParseLines(lines) ==
    IF lines = <<>>
    THEN <<>>
    ELSE LET m == Match(Head(lines))
         IN (IF m.matched
             THEN <<[status |-> ToLowerCase(m.verb), path |-> Trim(m.rest),
                     isIncluded |-> TRUE]>>
             ELSE <<>>) \o ParseLines(Tail(lines))

\* parsePendingChanges over the output text
parsePendingChanges(output) == ParseLines(Split(output, "\n"))

\* outputs of `status <path>` (characters)
StatusStdouts ==
    { <<>>,
      Kw_edit,
      <<"r", "e">> \o Kw_add \o <<" ">> \o Kw_edit }

\* outputs of `status /format:detailed` (characters)
RefreshStdouts ==
    { <<>>,
      <<"E", "D", "I", "T", " ", "a", "\n", "g", "a", "r", "b", "a", "g", "e", " ", "l", "i", "n", "e", "\n", "a", "d", "d", " ", "b">> }

\* a promise whose resolve replaces an earlier settlement
ResolveOverwriting(e, result) == [e EXCEPT !.promise = "resolved", !.value = result]

\* the promise of one invocation settles once: the first resolve or reject wins
Resolve(e, result) ==
    IF e.promise = "pending"
    THEN [e EXCEPT !.promise = "resolved", !.value = result]
    ELSE e

Reject(e, failure) ==
    IF e.promise = "pending"
    THEN [e EXCEPT !.promise = "rejected", !.value = failure]
    ELSE e

\* Array.prototype.join(' ')
RECURSIVE JoinSpace(_)
JoinSpace(args) ==
    IF args = <<>>
    THEN <<>>
    ELSE IF Len(args) = 1
         THEN args[1]
         ELSE args[1] \o <<" ">> \o JoinSpace(Tail(args))

CommandResult(stdout, stderr, exitCode) ==
    [type |-> "CommandResult", stdout |-> stdout, stderr |-> stderr,
     exitCode |-> exitCode]

fromCommandErrorNoOutput(command, args, exitCode, output) ==
    [type |-> "TfvcError", command |-> command, args |-> args,
     exitCode |-> exitCode, output |-> <<>>]

\* TfvcError.fromCommandError
fromCommandError(command, args, exitCode, output) ==
    [type |-> "TfvcError", command |-> command, args |-> args,
     exitCode |-> exitCode, output |-> output]

Marker_authentication == <<"a", "u", "t", "h", "e", "n", "t", "i", "c", "a", "t", "i", "o", "n">>
Marker_authorized == <<"a", "u", "t", "h", "o", "r", "i", "z", "e", "d">>
Marker_tf31002 == <<"t", "f", "3", "1", "0", "0", "2">>
Marker_tf30063 == <<"t", "f", "3", "0", "0", "6", "3">>

IsAuthErrorCaseSensitive(error) ==
    \/ Includes(error, Marker_authentication)
    \/ Includes(error, Marker_authorized)
    \/ Includes(error, Marker_tf31002)
    \/ Includes(error, Marker_tf30063)

\* isAuthError of the 'close' handler
IsAuthError(error) ==
    \/ Includes(ToLowerCase(error), Marker_authentication)
    \/ Includes(ToLowerCase(error), Marker_authorized)
    \/ Includes(ToLowerCase(error), Marker_tf31002)
    \/ Includes(ToLowerCase(error), Marker_tf30063)

CloseHandlerStrict(e, code) ==
    IF code = 0
    THEN Resolve(e, CommandResult(e.output, e.error, code))
    ELSE Reject([e EXCEPT !.log = Append(@, "TFVC command failed")],
                fromCommandError(JoinSpace(e.args), e.args, code, e.error))

\* tfProcess.on('close', ...)
CloseHandler(e, code) ==
    IF code = 0 \/ e.suppressErrors
    THEN Resolve(e, CommandResult(e.output, e.error, code))
    ELSE LET message == IF IsAuthError(e.error)
                        THEN "TFVC Authentication Error"
                        ELSE "TFVC command failed"
         IN Reject([e EXCEPT !.log = Append(@, message)],
                   fromCommandError(JoinSpace(e.args), e.args, code, e.error))

ErrorHandlerAsExit(e, message) ==
    IF e.suppressErrors
    THEN Resolve(e, CommandResult(<<>>, <<>>, -1))
    ELSE Reject([e EXCEPT !.log = Append(@, "Failed to execute TFVC command")],
                fromCommandError(JoinSpace(e.args), e.args, 1, e.error))

\* tfProcess.on('error', ...)
ErrorHandler(e, message) ==
    IF e.suppressErrors
    THEN Resolve(e, CommandResult(<<>>, <<>>, -1))
    ELSE Reject([e EXCEPT !.log = Append(@, "Failed to execute TFVC command")],
                fromCommandError(JoinSpace(e.args), e.args, -1, message))

\* cp.spawn(...) and the registration of the four listeners
Spawned(args, suppressErrors) ==
    [NotSpawned EXCEPT !.phase = "running", !.args = args,
                       !.suppressErrors = suppressErrors]

\* err.message of a failed spawn
SpawnErrorMessage == <<"E", "N", "O", "E", "N", "T">>

\* the exit code 'close' carries after a failed spawn (-errno of ENOENT)
SpawnErrorCode == -2

\* a whole invocation whose process did `outcome`: the promise resolves (ok)
\* with {stdout, stderr, exitCode} or rejects with a TfvcError; `errors`
\* counts the logger.error calls
executeTfCommand(outcome, suppressErrors) ==
    LET e0 == [Spawned(<<>>, suppressErrors) EXCEPT !.output = outcome.stdout,
                                                    !.error = outcome.stderr]
        e1 == IF outcome.event = "close"
              THEN CloseHandler(e0, outcome.code)
              ELSE ErrorHandler(e0, SpawnErrorMessage)
        ok == e1.promise = "resolved"
    IN [ok |-> ok,
        stdout |-> IF ok THEN e1.value.stdout ELSE <<>>,
        stderr |-> IF ok THEN e1.value.stderr ELSE e1.value.output,
        exitCode |-> e1.value.exitCode,
        errors |-> Len(e1.log)]

StatusOutcomes ==
    {Closed(0, out, <<>>) : out \in StatusStdouts}
        \cup {Closed(1, <<>>, <<"TF10139">>), SpawnError}

CheckoutOutcomes ==
    {Closed(0, <<>>, <<>>), Closed(1, <<>>, <<"TF10139">>), SpawnError}

RefreshOutcomes ==
    {Closed(0, out, <<>>) : out \in RefreshStdouts}
        \cup {Closed(1, <<>>, <<"TF10139">>), SpawnError}

-----------------------------------------------------------------------\* The watcher runs the same few invocations again and again; their results
\* are tabulated: executeTfCommand without suppression on each outcome,
\* parsePendingChanges and the keyword chain of getFileStatus on each stdout.
CommandResults ==
    [outcome \in StatusOutcomes \cup CheckoutOutcomes \cup RefreshOutcomes |->
        executeTfCommand(outcome, FALSE)]

ParsedChanges == [out \in RefreshStdouts \cup {<<>>} |-> parsePendingChanges(out)]

ParsedStatus == [out \in StatusStdouts \cup {<<>>} |-> ParseFileStatus(out)]

-----
(* TfvcProvider.handleFileChange: the auto-checkout watcher *)

SignalKinds == {"change", "save"}

\* handlings that have not completed
InFlight(hs) == {i \in 1..Len(hs) : hs[i].pc # "done"}

\* a handling that has just been started by a signal for path p
NewHandler(p) ==
    [path |-> p, pc |-> "start", dropped |-> FALSE,
     status |-> "unknown", cmds |-> <<>>, failure |-> "none", errors |-> 0,
     logged |-> FALSE,
     thrown |-> FALSE, result |-> "pending",
     overlap |-> {i \in InFlight(handlers) : handlers[i].path = p}]

\* a `finally` block that empties the whole set
FinallyClear(set, p) == {}

\* the `finally` block that forgets pendingCheckouts.delete
FinallyKeep(set, p) == set

\* the `finally` block: pendingCheckouts.delete(filePath)
Finally(set, p) == set \ {p}

\* a `catch` block that logs and throws the error again
CatchRethrow(h, stage, errors) ==
    [h EXCEPT !.failure = stage,
              !.errors = h.errors + errors + 1,
              !.logged = TRUE,
              !.thrown = TRUE]

\* the `catch` block of handleFileChange: the error thrown by getFileStatus or
\* checkoutFile (after `errors` calls of logger.error on its way up) is logged
\* with logger.error('Auto-checkout failed') and not thrown again
Catch(h, stage, errors) ==
    [h EXCEPT !.failure = stage,
              !.errors = h.errors + errors + 1,
              !.logged = TRUE,
              !.thrown = FALSE]

\* handleFileChange returns: its promise, which the listener awaits, settles
Settle(h) ==
    [h EXCEPT !.pc = "done",
              !.result = IF h.thrown THEN "rejected" ELSE "resolved"]

\* onDidChangeTextDocument / onDidSaveTextDocument deliver a signal for a
\* file; both listeners pass only the path on: handleFileChange up to its
\* first await
Signal(n, kind, p) ==
    /\ Len(handlers) < n
    /\ IF p \in pendingCheckouts
       THEN handlers' = Append(handlers,
                [NewHandler(p) EXCEPT !.pc = "done", !.dropped = TRUE,
                                            !.result = "resolved"])
       ELSE handlers' = Append(handlers,
                [NewHandler(p) EXCEPT !.pc = "status", !.cmds = <<"status">>])
    /\ UNCHANGED <<pendingCheckouts, filesetVars, historyVars, restVars>>

\* the `status <path>` process of handling h ends: getFileStatus returns or
\* throws, and handleFileChange runs up to its next await or to its end
StatusDone(h, outcome) ==
    /\ h \in 1..Len(handlers)
    /\ handlers[h].pc = "status"
    /\ LET r == CommandResults[outcome]
           p == handlers[h].path
           st == ParsedStatus[r.stdout]
       IN  IF r.ok
           THEN IF st # "edit"
                THEN /\ pendingCheckouts' = pendingCheckouts \cup {p}
                     /\ handlers' = [handlers EXCEPT ![h] =
                            [@ EXCEPT !.status = st, !.pc = "checkout",
                                      !.cmds = Append(@, "checkout")]]
                ELSE /\ pendingCheckouts' = Finally(pendingCheckouts, p)
                     /\ handlers' = [handlers EXCEPT ![h] =
                            Settle([@ EXCEPT !.status = st])]
           ELSE /\ pendingCheckouts' = Finally(pendingCheckouts, p)
                /\ handlers' = [handlers EXCEPT ![h] =
                       Settle(Catch(@, "status",
                                    r.errors + 1))]
    /\ UNCHANGED <<filesetVars, historyVars, restVars>>

\* the `checkout <path>` process of handling h ends: checkoutFile goes on to
\* refreshPendingChanges, or throws its TfvcError
CheckoutDone(h, outcome) ==
    /\ h \in 1..Len(handlers)
    /\ handlers[h].pc = "checkout"
    /\ LET r == CommandResults[outcome]
           p == handlers[h].path
       IN  IF r.ok
           THEN /\ handlers' = [handlers EXCEPT ![h] =
                       [@ EXCEPT !.pc = "refresh", !.cmds = Append(@, "refresh")]]
                /\ UNCHANGED pendingCheckouts
           ELSE /\ pendingCheckouts' = Finally(pendingCheckouts, p)
                /\ handlers' = [handlers EXCEPT ![h] =
                       Settle(Catch(@, "checkout",
                                    r.errors + 1))]
    /\ UNCHANGED <<filesetVars, historyVars, restVars>>

\* the `status /format:detailed` process of handling h ends:
\* refreshPendingChanges parses and calls setPendingChanges, or throws
RefreshDone(h, outcome) ==
    /\ h \in 1..Len(handlers)
    /\ handlers[h].pc = "refresh"
    /\ LET r == CommandResults[outcome]
           p == handlers[h].path
           changes == ParsedChanges[r.stdout]
       IN  IF r.ok
           THEN /\ Apply(SetPendingChangesResult(changes),
                         "setPendingChanges", "", FALSE, changes)
                /\ UNCHANGED disposed
                /\ pendingCheckouts' = Finally(pendingCheckouts, p)
                /\ handlers' = [handlers EXCEPT ![h] =
                       Settle([@ EXCEPT !.cmds = Append(@, "setPendingChanges")])]
           ELSE /\ pendingCheckouts' = Finally(pendingCheckouts, p)
                /\ handlers' = [handlers EXCEPT ![h] =
                       Settle(Catch(@, "refresh",
                                    r.errors + 2))]
                /\ UNCHANGED filesetVars
    /\ UNCHANGED <<historyVars, restVars>>

\* some process of handling h ends
Complete(h) ==
    \/ \E outcome \in StatusOutcomes : StatusDone(h, outcome)
    \/ \E outcome \in CheckoutOutcomes : CheckoutDone(h, outcome)
    \/ \E outcome \in RefreshOutcomes : RefreshDone(h, outcome)

WatcherStart == FilesetInit /\ WatcherIdle /\ HistoryIdle /\ RestIdle

\* a signal in a run of at most MaxTriggers signals
Trigger(kind, p) == Signal(MaxTriggers, kind, p)

\* a signal in a run of at most MaxFairTriggers signals
FairTrigger(kind, p) == Signal(MaxFairTriggers, kind, p)

WatcherNext ==
    \/ \E kind \in SignalKinds, p \in Paths : Trigger(kind, p)
    \/ \E h \in 1..MaxTriggers, outcome \in StatusOutcomes : StatusDone(h, outcome)
    \/ \E h \in 1..MaxTriggers, outcome \in CheckoutOutcomes : CheckoutDone(h, outcome)
    \/ \E h \in 1..MaxTriggers, outcome \in RefreshOutcomes : RefreshDone(h, outcome)

WatcherSpec == WatcherStart /\ [][WatcherNext]_vars

WatcherFairNext ==
    \/ \E kind \in SignalKinds, p \in Paths : FairTrigger(kind, p)
    \/ \E h \in 1..MaxFairTriggers, outcome \in StatusOutcomes : StatusDone(h, outcome)
    \/ \E h \in 1..MaxFairTriggers, outcome \in CheckoutOutcomes : CheckoutDone(h, outcome)
    \/ \E h \in 1..MaxFairTriggers, outcome \in RefreshOutcomes : RefreshDone(h, outcome)

\* every spawned process eventually closes or fails to spawn
WatcherFairSpec ==
    /\ WatcherStart
    /\ [][WatcherFairNext]_vars
    /\ \A h \in 1..MaxFairTriggers : WF_vars(Complete(h))

----------------------------------------------------------------------------
(* Auto-checkout watcher: properties *)

Handlings == 1..Len(handlers)

Invoked(h, cmd) == cmd \in Range(handlers[h].cmds)

\* C1: when a signal for path P arrives while the handling of an earlier
\* signal for P is still in flight (its status query included), the two
\* handlings together invoke `checkout P` at most once.
C1_OneCheckoutPerPath ==
    \A i, j \in Handlings :
        (i \in handlers[j].overlap) =>
            ~(Invoked(i, "checkout") /\ Invoked(j, "checkout"))

\* C2: P is marked processing before the status query is issued, so P is in
\* pendingCheckouts whenever a status query for P is in flight, and a signal
\* that finds P processing is dropped: it spawns nothing and completes at once.
C2_MarkedBeforeStatusQuery ==
    /\ \A h \in Handlings :
          handlers[h].pc = "status" => handlers[h].path \in pendingCheckouts
    /\ \A h \in Handlings :
          handlers[h].dropped => handlers[h].cmds = <<>> /\ handlers[h].pc = "done"

\* C3: a handling that completes (whichever of the status query, the checkout
\* and the refresh failed, or none) leaves P out of pendingCheckouts, and if
\* every spawned process ends, a path in pendingCheckouts eventually leaves it.
C3_ReturnsToIdle ==
    /\ [][\A h \in Handlings :
            (handlers[h].pc # "done" /\ handlers'[h].pc = "done")
                => handlers[h].path \notin pendingCheckouts']_vars
    /\ \A p \in Paths : (p \in pendingCheckouts) ~> (p \notin pendingCheckouts)

\* C3 witness: a handling whose checkout failed has completed and its path is
\* idle again.
C3_Witness ==
    \E h \in Handlings :
        /\ handlers[h].pc = "done"
        /\ handlers[h].failure = "checkout"
        /\ Invoked(h, "checkout")
        /\ handlers[h].path \notin pendingCheckouts

\* C4: the promise of a signal's handler is never rejected: a failure of the
\* status query, the checkout or the refresh is caught and logged by
\* handleFileChange, and a completed handling has resolved.
C4_HandlerNeverRejects ==
    \A h \in Handlings :
        /\ handlers[h].result # "rejected"
        /\ handlers[h].pc = "done" => handlers[h].result = "resolved"
        /\ handlers[h].failure # "none" =>
              handlers[h].logged /\ handlers[h].result = "resolved"

\* C4 witness: the refresh after a successful checkout failed and the
\* handler's promise resolved.
C4_Witness ==
    \E h \in Handlings :
        /\ handlers[h].failure = "refresh"
        /\ handlers[h].logged
        /\ handlers[h].result = "resolved"

\* The order of the commands of one handling: a checkout is invoked exactly
\* when the status query returned something other than `edit`, the refresh
\* follows a successful checkout, and a status of `edit` invokes nothing more.
HandlingOrder ==
    \A h \in Handlings :
        /\ Invoked(h, "checkout") <=>
              (~handlers[h].dropped /\ handlers[h].status \notin {"unknown", "edit"})
        /\ Invoked(h, "refresh") <=>
              (Invoked(h, "checkout")
                 /\ handlers[h].pc # "checkout" /\ handlers[h].failure # "checkout")
        /\ Invoked(h, "refresh") =>
              SubSeq(handlers[h].cmds, 1, 3) = <<"status", "checkout", "refresh">>
        /\ handlers[h].status = "edit" => handlers[h].cmds = <<"status">>

\* C5: HandlingOrder, and the refresh is issued before P returns to idle: P is
\* in pendingCheckouts as long as the checkout or the refresh of a handling of
\* P is in flight.
C5_CheckoutThenRefreshBeforeIdle ==
    /\ HandlingOrder
    /\ \A h \in Handlings :
          handlers[h].pc \in {"checkout", "refresh"}
              => handlers[h].path \in pendingCheckouts

\* C32: handlings of different paths are independent: a signal is dropped
\* only when a handling of its own path is in flight, and a step of one
\* handling leaves every handling of another path, and whether that path is
\* in pendingCheckouts, as they were
C32_PathsHandledIndependently ==
    /\ [](\A h \in Handlings : handlers[h].dropped => handlers[h].overlap # {})
    /\ [][\A i \in Handlings :
            handlers'[i] # handlers[i] =>
                \A j \in Handlings :
                    handlers[j].path # handlers[i].path =>
                        /\ handlers'[j] = handlers[j]
                        /\ (handlers[j].path \in pendingCheckouts')
                               = (handlers[j].path \in pendingCheckouts)]_vars

\* C32 witness: the checkout of one path and the status query of the other
\* are in flight together, after a handling of the second path has completed.
C32_Witness ==
    \E i, j, k \in Handlings :
        /\ handlers[i].path # handlers[j].path
        /\ handlers[i].pc = "checkout"
        /\ handlers[j].pc = "status"
        /\ handlers[k].path = handlers[j].path
        /\ handlers[k].pc = "done"
        /\ ~handlers[k].dropped

\* C33: whenever the checkout of a handling of P is in flight, P is in
\* pendingCheckouts: no other handling of P that finishes earlier removes
\* the entry
C33_InFlightCheckoutIsGuarded ==
    \A h \in Handlings :
        handlers[h].pc = "checkout" => handlers[h].path \in pendingCheckouts

\* LogLevel.Error
ErrorLevel == 3

\* Logger.error(message, error?): the showErrorMessage calls it makes; every
\* line it logs at ERROR goes through Logger.log, which shows a notification
LoggerError(logLevel, hasError) ==
    IF logLevel <= ErrorLevel
    THEN 1 + (IF hasError THEN 1 ELSE 0)
    ELSE 0

\* C21: a failing auto-checkout (status query, checkout or refresh started by
\* an editor signal) raises no user-facing error notification, whatever log
\* level is configured
C21_AutoCheckoutFailsSilently ==
    \A h \in Handlings :
        handlers[h].errors > 0 =>
            \A logLevel \in 0..ErrorLevel, hasError \in BOOLEAN :
                LoggerError(logLevel, hasError) = 0

----------------------------------------------------------------------------
(* TfvcProvider.commandHistory and recordCommand *)

HistoryCap == 100

\* the payload most recorded entries carry in a run of the model
DefaultPayload == [command |-> "checkin", success |-> TRUE]

\* the calls of recordCommand a run of the model makes: checkin() that
\* succeeded, getPreviousVersion() that failed
RecordedCalls == {DefaultPayload, [command |-> "view", success |-> FALSE]}

\* Array.prototype.shift: the array without its first element
Shift(a) == Tail(a)

\* Array.prototype.pop: the array without its last element
Pop(a) == SubSeq(a, 1, Len(a) - 1)

\* recordCommand that evicts with pop() instead of shift()
RecordEvictNewest(history, entry) ==
    IF Len(Append(history, entry)) > HistoryCap
    THEN Pop(Append(history, entry))
    ELSE Append(history, entry)

\* the history after recordCommand: push, then shift if longer than the cap
RecordResult(history, entry) ==
    IF Len(Append(history, entry)) > HistoryCap
    THEN Shift(Append(history, entry))
    ELSE Append(history, entry)

\* recordCommand(command, success); Date.now() is the number of the call
recordCommand(command, success) ==
    /\ Len(appended) < MaxAppends
    /\ LET entry == [command |-> command, timestamp |-> Len(appended) + 1,
                     success |-> success]
           isDefault == [command |-> command, success |-> success] = DefaultPayload
       IN  /\ isDefault \/ varied < MaxVaried
           /\ varied' = IF isDefault THEN varied ELSE varied + 1
           /\ commandHistory' = RecordResult(commandHistory, entry)
           /\ appended' = Append(appended, entry)
    /\ UNCHANGED <<filesetVars, watcherVars, restVars>>

HistoryStart == FilesetInit /\ WatcherIdle /\ HistoryIdle /\ RestIdle

HistoryNext ==
    \E call \in RecordedCalls : recordCommand(call.command, call.success)

HistorySpec == HistoryStart /\ [][HistoryNext]_vars

\* the smaller of two numbers
Min(a, b) == IF a < b THEN a ELSE b

\* C9: after any number of recordCommand calls the history holds at most 100
\* entries, and they are the most recent min(n, 100) entries passed to
\* recordCommand, in the order they were passed.
C9_HistoryKeepsMostRecent ==
    /\ Len(commandHistory) <= 100
    /\ Len(commandHistory) = Min(Len(appended), 100)
    /\ commandHistory =
           SubSeq(appended, Len(appended) - Len(commandHistory) + 1, Len(appended))

\* C9 witness: two entries have been evicted, one of them a failed command,
\* and the history is full.
C9_Witness ==
    /\ Len(appended) = 102
    /\ Len(commandHistory) = 100
    /\ ~appended[2].success
    /\ commandHistory[1].timestamp = 3

----------------------------------------------------------------------------
(* TfvcProvider.executeTfCommand: one invocation, event by event *)

MaxChunks == 2          \* 'data' events of one process, both streams together

ExecArgs ==
    { <<<<"s", "t", "a", "t", "u", "s">>, <<"a">>>>,
      <<<<"w", "o", "r", "k", "s", "p", "a", "c", "e", "s">>>> }

StdoutChunks == {<<"e", "d", "i", "t", " ", "a">>}

StderrChunks ==
    { <<"T", "F", "3", "1">>,
      <<"0", "0", "2">>,
      <<"N", "o", "t", " ", "A", "u", "t", "h", "o", "r", "i", "z", "e", "d">>,
      <<"T", "F", "1", "0", "1", "3", "9">> }

notExecVars == <<filesetVars, watcherVars, historyVars, pure, configVars, diag, extraVars>>

Spawn(args, suppressErrors) ==
    /\ exec.phase = "none"
    /\ exec' = Spawned(args, suppressErrors)
    /\ UNCHANGED notExecVars

\* tfProcess.stdout.on('data', ...)
StdoutData(chunk) ==
    /\ exec.phase = "running"
    /\ exec.chunks < MaxChunks
    /\ exec' = [exec EXCEPT !.output = @ \o chunk, !.chunks = @ + 1]
    /\ UNCHANGED notExecVars

\* tfProcess.stderr.on('data', ...)
StderrData(chunk) ==
    /\ exec.phase = "running"
    /\ exec.chunks < MaxChunks
    /\ exec' = [exec EXCEPT !.error = @ \o chunk, !.chunks = @ + 1]
    /\ UNCHANGED notExecVars

\* the process exits: 'close' with its exit code
Close(code) ==
    /\ exec.phase = "running"
    /\ exec' = [CloseHandler(exec, code) EXCEPT !.phase = "closed",
                                                !.first = "close", !.code = code]
    /\ UNCHANGED notExecVars

\* the executable cannot be spawned: 'error' before any data
Error ==
    /\ exec.phase = "running"
    /\ exec.chunks = 0
    /\ exec' = [ErrorHandler(exec, SpawnErrorMessage) EXCEPT !.phase = "failed",
                                                             !.first = "error"]
    /\ UNCHANGED notExecVars

\* after a failed spawn the child still emits 'close', with a negative code
CloseAfterError ==
    /\ exec.phase = "failed"
    /\ exec' = [CloseHandler(exec, SpawnErrorCode) EXCEPT !.phase = "closed",
                                                          !.code = SpawnErrorCode]
    /\ UNCHANGED notExecVars

ExecStart ==
    FilesetInit /\ WatcherIdle /\ HistoryIdle /\ PureIdle /\ ConfigIdle /\ DiagIdle
    /\ ExtraIdle
    /\ ExecIdle

ExecNext ==
    \/ \E args \in ExecArgs, suppressErrors \in BOOLEAN : Spawn(args, suppressErrors)
    \/ \E chunk \in StdoutChunks : StdoutData(chunk)
    \/ \E chunk \in StderrChunks : StderrData(chunk)
    \/ \E code \in ExitCodes : Close(code)
    \/ Error
    \/ CloseAfterError

ExecSpec == ExecStart /\ [][ExecNext]_vars

AuthMarkers ==
    {Marker_authentication, Marker_authorized, Marker_tf31002, Marker_tf30063}

\* C14: on a non-zero exit without suppression the rejection is the same
\* TfvcError (type, command, args, exit code, captured output) whether or not
\* stderr holds an authentication marker in any letter case; only the logged
\* message tells the two apart
C14_AuthClassificationOnlyLogged ==
    (~exec.suppressErrors /\ exec.first = "close" /\ exec.code # 0) =>
        /\ exec.value = [type |-> "TfvcError", command |-> JoinSpace(exec.args),
                         args |-> exec.args, exitCode |-> exec.code,
                         output |-> exec.error]
        /\ exec.log =
               <<IF \E m \in AuthMarkers : Includes(ToLowerCase(exec.error), m)
                 THEN "TFVC Authentication Error"
                 ELSE "TFVC command failed">>

C14_Witness ==
    /\ ~exec.suppressErrors
    /\ exec.first = "close"
    /\ exec.code = 1
    /\ exec.error = <<"T", "F", "3", "1">> \o <<"0", "0", "2">>
    /\ exec.log = <<"TFVC Authentication Error">>
    /\ exec.value.type = "TfvcError"

\* 'error' is emitted after 'close': the listener registered at spawn is
\* still attached and runs
ErrorAfterClose ==
    /\ exec.phase = "closed"
    /\ exec.first = "close"
    /\ exec' = [ErrorHandler(exec, SpawnErrorMessage) EXCEPT !.phase = "done"]
    /\ UNCHANGED notExecVars

SettleNext ==
    \/ \E args \in ExecArgs, suppressErrors \in BOOLEAN : Spawn(args, suppressErrors)
    \/ \E chunk \in StdoutChunks : StdoutData(chunk)
    \/ \E chunk \in StderrChunks : StderrData(chunk)
    \/ \E code \in ExitCodes : Close(code)
    \/ Error
    \/ CloseAfterError
    \/ ErrorAfterClose

\* one invocation in which 'error' and 'close' may come in either order
SettleSpec == ExecStart /\ [][SettleNext]_vars

\* the invocation as it was when its first event arrived
AtFirstEvent == [exec EXCEPT !.promise = "pending", !.value = NoValue]

----------------------------------------------------------------------------
(* Activation and the auto-checkout subscriptions *)

ConfigKeys == {"autoCheckout", "autoCheckoutOnSave", "useVisualStudioCredentials"}

Settings == [ConfigKeys -> BOOLEAN]

Schemes == {"file", "untitled"}

\* setupAutoCheckout(): every entry of `disposables` has been disposed and
\* the array emptied; these are the listeners registered afterwards
setupAutoCheckout(cfg) ==
    IF ~cfg.autoCheckout
    THEN <<>>
    ELSE (IF ~cfg.autoCheckoutOnSave THEN <<"change">> ELSE <<>>) \o <<"save">>

\* vscode.workspace.workspaceFolders?.[0].uri.fsPath || ''
WorkspaceRoots == {"", "/ws"}

\* TfvcError.fromWorkspaceError(message)
fromWorkspaceError(message) ==
    [type |-> "TfvcError", message |-> message, command |-> "workspace",
     args |-> <<>>]

\* a constructor that sets the provider up before it looks at the workspace
\* root
NewTfvcProviderSetupFirst(cfg, root) ==
    [threw |-> root = "",
     error |-> IF root = "" THEN fromWorkspaceError("No workspace folder found")
               ELSE NoValue,
     disposables |-> Append(setupAutoCheckout(cfg), "config"),
     useVsCredentials |-> cfg.useVisualStudioCredentials,
     spawned |-> <<"workfold", "help">>]

\* new TfvcProvider(): without a workspace root it throws before anything is
\* set up; else setupAutoCheckout(), then the configuration listener is
\* pushed onto the same `disposables`, then initializeCollectionUrl() and
\* logEnvironmentDetails() run up to their first await, each spawning its
\* tool process
NewTfvcProvider(cfg, root) ==
    IF root = ""
    THEN [threw |-> TRUE,
          error |-> fromWorkspaceError("No workspace folder found"),
          disposables |-> <<>>,
          useVsCredentials |-> cfg.useVisualStudioCredentials,
          spawned |-> <<>>]
    ELSE [threw |-> FALSE,
          error |-> NoValue,
          disposables |-> Append(setupAutoCheckout(cfg), "config"),
          useVsCredentials |-> cfg.useVisualStudioCredentials,
          spawned |-> <<"workfold", "help">>]

\* the listener given to onDidChangeConfiguration, run by provider pr for a
\* change of `key` that left the settings cfg
onDidChangeConfiguration(pr, key, cfg) ==
    LET afterSetup ==
            IF key \in {"autoCheckout", "autoCheckoutOnSave"}
            THEN [pr EXCEPT !.disposables = setupAutoCheckout(cfg)]
            ELSE pr
    IN IF key = "useVisualStudioCredentials"
       THEN [afterSetup EXCEPT !.useVsCredentials = cfg.useVisualStudioCredentials]
       ELSE afterSetup

\* the listeners of one kind held by a provider
Listeners(pr, kind) == {i \in 1..Len(pr.disposables) : pr.disposables[i] = kind}

notConfigVars ==
    <<filesetVars, watcherVars, historyVars, pure, exec, diag, userCommand,
      operation, probe, refreshes, merging>>

\* the command ids activate() registers a handler for
RegisteredCommands ==
    {"initializeWorkspace", "checkin", "checkout", "getLatest", "merge",
     "createShelveset", "applyShelveset", "showHistory", "showBranches",
     "showDiagnostics"}

\* activate(): `new TfvcProvider()` and `new TfvcScmProvider()`, whose
\* constructor makes a TfvcProvider of its own, then the command
\* registrations and a first refreshPendingChanges(); a constructor that
\* throws ends activate() there
activate ==
    /\ ext.activation = "none"
    /\ providers = <<>>
    /\ LET first == NewTfvcProvider(config, ext.workspaceRoot)
           second == NewTfvcProvider(config, ext.workspaceRoot)
       IN  IF first.threw
           THEN /\ providers' = <<>>
                /\ ext' = [ext EXCEPT !.activation = "failed",
                                      !.error = first.error,
                                      !.listeners = first.disposables,
                                      !.spawned = first.spawned]
           ELSE /\ providers' = <<first, second>>
                /\ ext' = [ext EXCEPT !.activation = "active",
                                      !.listeners = first.disposables \o second.disposables,
                                      !.spawned = first.spawned \o second.spawned
                                                     \o <<"status">>,
                                      !.registered = RegisteredCommands]
    /\ UNCHANGED <<config, signal, notConfigVars>>

\* the user changes one tfvc setting; the event reaches every provider whose
\* configuration listener is still registered
ChangeConfiguration(key, value) ==
    /\ providers # <<>>
    /\ config[key] # value
    /\ config' = [config EXCEPT ![key] = value]
    /\ providers' =
           [i \in 1..Len(providers) |->
               IF Listeners(providers[i], "config") # {}
               THEN onDidChangeConfiguration(providers[i], key, config')
               ELSE providers[i]]
    /\ UNCHANGED <<signal, ext, notConfigVars>>

\* the editor reports a change or a save of a document; every registered
\* listener of that kind calls handleFileChange for a file document
EditorSignal(kind, scheme, p) ==
    /\ ext.activation # "none"
    /\ signal' =
           [kind |-> kind, path |-> p, scheme |-> scheme,
            handlings |->
                IF scheme = "file"
                THEN Cardinality({<<i, j>> \in (1..Len(providers)) \X (1..3) :
                                      j \in Listeners(providers[i], kind)})
                ELSE 0]
    /\ UNCHANGED <<config, providers, ext, notConfigVars>>

\* the command ids the README lists
ReadmeCommands ==
    {"checkout", "checkin", "refresh", "getLatest", "showHistory", "showDiff",
     "createShelveset", "applyShelveset"}

\* contributes.commands of package.json
ContributedCommands ==
    {"initializeWorkspace", "checkin", "checkout", "getLatest", "merge",
     "createShelveset", "applyShelveset", "showHistory", "showBranches",
     "showLogs", "refreshPendingChanges", "includeFile", "excludeFile",
     "includeAllFiles", "excludeAllFiles", "showDiagnostics", "showDiff"}

\* the command of a pending-change tree node
TreeNodeCommand == "showDiff"

\* the user (or a click on a tree node) executes command vscode-tfvc.<name>;
\* the editor runs the handler registered under that id, if there is one
InvokeCommand(name) ==
    /\ ext.activation = "active"
    /\ ext' = [ext EXCEPT !.invoked = name, !.ran = name \in ext.registered]
    /\ UNCHANGED <<config, providers, signal, notConfigVars>>

ConfigStart ==
    /\ FilesetInit /\ WatcherIdle /\ HistoryIdle /\ PureIdle /\ ExecIdle /\ DiagIdle
    /\ userCommand = NoCommand
    /\ operation = NoCall
    /\ probe = NoProbe
    /\ refreshes = <<>>
    /\ merging = NoMerge
    /\ ext \in {[NotActivated EXCEPT !.workspaceRoot = root] : root \in WorkspaceRoots}
    /\ config \in Settings
    /\ providers = <<>>
    /\ signal = NoSignal

ConfigNext ==
    \/ activate
    \/ \E key \in ConfigKeys, value \in BOOLEAN : ChangeConfiguration(key, value)
    \/ \E kind \in SignalKinds, scheme \in Schemes, p \in Paths :
           EditorSignal(kind, scheme, p)
    \/ \E name \in ReadmeCommands \cup ContributedCommands \cup {TreeNodeCommand} :
           InvokeCommand(name)

ConfigSpec == ConfigStart /\ [][ConfigNext]_vars

\* the listener kinds the settings call for
WantedKinds(cfg) ==
    IF ~cfg.autoCheckout
    THEN {}
    ELSE IF cfg.autoCheckoutOnSave THEN {"save"} ELSE {"change", "save"}

\* C18: whatever changes were made to the settings, each provider's active
\* document listeners are those of the current settings: none when
\* auto-checkout is off, saved only in the save-only sub-mode, changed and
\* saved otherwise
C18_SubscriptionsFollowSettings ==
    \A i \in 1..Len(providers) :
        {kind \in SignalKinds : Listeners(providers[i], kind) # {}} = WantedKinds(config)

\* C19: in the activated extension at most one document-changed and at most
\* one document-saved listener are registered, so one editor signal starts at
\* most one handling
C19_NoDuplicateSubscriptions ==
    /\ \A kind \in SignalKinds :
           Cardinality({<<i, j>> \in (1..Len(providers)) \X (1..3) :
                            j \in Listeners(providers[i], kind)}) <= 1
    /\ signal.handlings <= 1

C29_ListedCommandsRegistered ==
    /\ ext.activation = "active" =>
          ReadmeCommands \cup ContributedCommands \cup {TreeNodeCommand}
              \subseteq ext.registered
    /\ ext.invoked # "none" => ext.ran

----------------------------------------------------------------------------
(* The parsers of tool output, applied to one output text *)

MaxLines == 2           \* lines of one tool output

\* lines a tool output is made of
Line_EditA == <<"e", "d", "i", "t", " ", "a">>
Line_UpperAddB == <<"A", "D", "D", " ", "b">>
Line_DeleteAB == <<"D", "e", "l", "e", "t", "e", " ", "a", " ", "b">>
Line_RenamePadded == <<"r", "e", "n", "a", "m", "e", " ", " ", "a", " ">>
Line_Garbage == <<"g", "a", "r", "b", "a", "g", "e", " ", "l", "i", "n", "e">>
Line_Editor == <<"e", "d", "i", "t", "o", "r", " ", "a">>
Line_Indented == <<" ", "e", "d", "i", "t", " ", "a">>
Line_CarriageReturn == <<"e", "d", "i", "t", " ", "a", "\r">>
Line_VerbSpaces == <<"e", "d", "i", "t", " ", " ">>
Line_VerbOnly == <<"e", "d", "i", "t">>
Line_Empty == <<>>
Line_TabAddA == <<"a", "d", "d", "\t", "a">>
Line_Undelete == <<"u", "n", "d", "e", "l", "e", "t", "e", " ", "a">>

SampleLines ==
    {Line_EditA,
     Line_UpperAddB,
     Line_DeleteAB,
     Line_RenamePadded,
     Line_Garbage,
     Line_Editor,
     Line_Indented,
     Line_CarriageReturn,
     Line_VerbSpaces,
     Line_VerbOnly,
     Line_Empty,
     Line_TabAddA,
     Line_Undelete}

\* the lines as the tool writes them, separated by line feeds
RECURSIVE JoinLines(_)
JoinLines(lines) ==
    IF lines = <<>>
    THEN <<>>
    ELSE IF Len(lines) = 1
         THEN lines[1]
         ELSE lines[1] \o <<"\n">> \o JoinLines(Tail(lines))

ToolOutputs ==
    {[fn |-> "none", lines |-> ls, input |-> JoinLines(ls), changes |-> <<>>,
      status |-> "none"] : ls \in SeqsUpTo(SampleLines, MaxLines)}

notPureVars == <<filesetVars, watcherVars, historyVars, exec, configVars, diag, extraVars>>

\* refreshPendingChanges hands the stdout of `status /format:detailed` to
\* parsePendingChanges
ParseChanges ==
    /\ pure.fn = "none"
    /\ pure' = [pure EXCEPT !.fn = "parsePendingChanges",
                            !.changes = parsePendingChanges(pure.input)]
    /\ UNCHANGED notPureVars

\* getFileStatus runs its keyword chain over the stdout of `status <path>`
ParseStatus ==
    /\ pure.fn = "none"
    /\ pure' = [pure EXCEPT !.fn = "getFileStatus",
                            !.status = ParseFileStatus(pure.input)]
    /\ UNCHANGED notPureVars

PureStart ==
    /\ FilesetInit /\ WatcherIdle /\ HistoryIdle /\ ExecIdle /\ ConfigIdle /\ DiagIdle
    /\ ExtraIdle
    /\ pure \in ToolOutputs

PureNext == ParseChanges \/ ParseStatus

PureSpec == PureStart /\ [][PureNext]_vars

Entry(status, path) == <<[status |-> status, path |-> path, isIncluded |-> TRUE]>>

\* what each line of SampleLines stands for in the tool's listing
EntryOfLine(line) ==
    CASE line = Line_EditA -> Entry(Kw_edit, <<"a">>)
      [] line = Line_UpperAddB -> Entry(Kw_add, <<"b">>)
      [] line = Line_DeleteAB -> Entry(Kw_delete, <<"a", " ", "b">>)
      [] line = Line_RenamePadded -> Entry(Kw_rename, <<"a">>)
      [] line = Line_VerbSpaces -> Entry(Kw_edit, <<>>)
      [] line = Line_TabAddA -> Entry(Kw_add, <<"a">>)
      [] OTHER -> <<>>

RECURSIVE EntriesOfLines(_)
EntriesOfLines(lines) ==
    IF lines = <<>>
    THEN <<>>
    ELSE EntryOfLine(Head(lines)) \o EntriesOfLines(Tail(lines))

\* C15 (as the code has it): the parser returns, in line order, one entry per
\* line made of a status verb in any letter case, white space and at least
\* one more character with no carriage return after the white space; the
\* status is the lower-cased verb, the path is the rest of the line with the
\* white space around it removed (empty when only white space follows the
\* verb), isIncluded is true; every other line, a line ending in a carriage
\* return included, gives no entry and the parse never fails
C15_OneEntryPerVerbLineTrimmed ==
    pure.fn = "parsePendingChanges" => pure.changes = EntriesOfLines(pure.lines)

C15_Witness ==
    /\ pure.fn = "parsePendingChanges"
    /\ pure.lines = <<Line_RenamePadded, Line_Garbage>>
    /\ pure.changes = Entry(Kw_rename, <<"a">>)

\* the line read as <status-verb> <path>: k characters of verb, j of white
\* space, then a path that begins with a visible character
VerbThenPath(line, k, j) ==
    /\ ToLowerCase(SubSeq(line, 1, k)) \in StatusVerbs
    /\ j >= 1
    /\ k + j < Len(line)
    /\ \A i \in (k + 1)..(k + j) : IsSpace(line[i])
    /\ ~IsSpace(line[k + j + 1])

RestOfLineEntry(line) ==
    IF \E k, j \in 1..Len(line) : VerbThenPath(line, k, j)
    THEN LET kj == CHOOSE kj \in (1..Len(line)) \X (1..Len(line)) :
                       VerbThenPath(line, kj[1], kj[2])
         IN Entry(ToLowerCase(SubSeq(line, 1, kj[1])),
                  SubSeq(line, kj[1] + kj[2] + 1, Len(line)))
    ELSE <<>>

RECURSIVE RestOfLineEntries(_)
RestOfLineEntries(lines) ==
    IF lines = <<>>
    THEN <<>>
    ELSE RestOfLineEntry(Head(lines)) \o RestOfLineEntries(Tail(lines))

\* C15 (as stated): one entry per line of the form <status-verb> <path>, the
\* path being the rest of the line; every other line gives no entry
C15_PathIsRestOfLine ==
    pure.fn = "parsePendingChanges" => pure.changes = RestOfLineEntries(pure.lines)

\* C16: getFileStatus returns the first of edit, add, delete, rename that
\* occurs in the output as a substring, and none when no keyword occurs; an
\* output containing edit yields edit
C16_FirstKeywordInOrder ==
    pure.fn = "getFileStatus" =>
        LET order == <<Kw_edit, Kw_add, Kw_delete, Kw_rename>>
            name == <<"edit", "add", "delete", "rename">>
            found == {i \in 1..4 : Includes(pure.input, order[i])}
        IN /\ found = {} => pure.status = "none"
           /\ found # {} =>
                  \E i \in found : /\ \A j \in found : i <= j
                                   /\ pure.status = name[i]
           /\ 1 \in found => pure.status = "edit"

C16_Witness ==
    /\ pure.fn = "getFileStatus"
    /\ pure.lines = <<Line_Undelete, Line_RenamePadded>>
    /\ pure.status = "delete"

----------------------------------------------------------------------------
(* TfvcProvider.generateDiagnosticsReport *)

RecentCount == 10

\* cp.spawn raises inside the promise executor (an argument of the wrong
\* type): the promise of executeTfCommand is rejected whatever suppressErrors is
SpawnThrow == [event |-> "throw", code |-> -1, stdout |-> <<>>, stderr |-> <<>>]

\* executeTfCommand, the raising spawn included
Invocation(outcome, suppressErrors) ==
    IF outcome.event = "throw"
    THEN [ok |-> FALSE, stdout |-> <<>>, stderr |-> <<>>, exitCode |-> -1, errors |-> 0]
    ELSE executeTfCommand(outcome, suppressErrors)

\* addSection(title, content)
Section(title, content) == <<[title |-> title, content |-> content]>>

SystemSection == Section("System Information", [kind |-> "system"])

ConfigurationSection(cfg) == Section("TFVC Configuration", [kind |-> "settings", of |-> cfg])

\* process.env[name] || 'Not set'
OrNotSet(v) ==
    IF v.set /\ v.value # <<>>
    THEN v.value
    ELSE <<"N", "o", "t", " ", "s", "e", "t">>

\* the three lines of the section, each with the text printed after its label
EnvironmentSection(env) ==
    Section("Visual Studio Environment",
            [kind |-> "environment",
             vsInstallDir |-> OrNotSet(env.VSINSTALLDIR),
             vsSdkInstall |-> OrNotSet(env.VSSDK140Install),
             devEnvPath |-> OrNotSet(env.DevEnvDir)])

\* getWorkspaceInfo(): never rejects; its own catch returns { error }
getWorkspaceInfo(outcome) ==
    LET r == Invocation(outcome, TRUE)
    IN IF r.ok
       THEN [threw |-> FALSE, info |-> [kind |-> "workspace", parsedFrom |-> r.stdout]]
       ELSE [threw |-> FALSE, info |-> [kind |-> "workspace-undefined"]]

WorkspaceSection(outcome) ==
    LET w == getWorkspaceInfo(outcome)
    IN IF w.threw
       THEN Section("Workspace Information", [kind |-> "placeholder"])
       ELSE Section("Workspace Information", w.info)

\* the tool section with a try block that has no catch
ToolSectionAborting(outcome) ==
    LET r == Invocation(outcome, TRUE)
    IN IF r.ok
       THEN Section("TF Command-line Tool",
                    [kind |-> "version", line |-> Split(r.stdout, "\n")[1]])
       ELSE <<>>

ToolSection(outcome) ==
    LET r == Invocation(outcome, TRUE)
    IN IF r.ok
       THEN Section("TF Command-line Tool",
                    [kind |-> "version", line |-> Split(r.stdout, "\n")[1]])
       ELSE Section("TF Command-line Tool", [kind |-> "placeholder"])

PendingChangesSection(m) ==
    Section("Pending Changes",
            [kind |-> "changes", total |-> Len(getAllFiles(m)),
             included |-> Len(SelectSeq(getAllFiles(m), LAMBDA c : c.isIncluded)),
             excluded |-> Len(SelectSeq(getAllFiles(m), LAMBDA c : ~c.isIncluded))])

\* Array.prototype.slice(-n)
\* Array.prototype.slice(0, n)
SliceFirst(a, n) == IF Len(a) <= n THEN a ELSE SubSeq(a, 1, n)

SliceLast(a, n) == IF Len(a) <= n THEN a ELSE SubSeq(a, Len(a) - n + 1, Len(a))

\* the line `[${date}] ${status} ${entry.command}` of one entry: its date,
\* a check mark or a cross, its command
FormatEntry(entry) ==
    [date |-> entry.timestamp,
     status |-> IF entry.success THEN "check" ELSE "cross",
     command |-> entry.command]

\* commandHistory.slice(-10).map(...): a new array, the history is not touched
getRecentCommandHistory(history) ==
    LET recent == SliceLast(history, RecentCount)
    IN  [i \in 1..Len(recent) |-> FormatEntry(recent[i])]

HistorySection(history) ==
    Section("Recent Command History",
            [kind |-> "history", entries |-> getRecentCommandHistory(history)])

\* validateCredentials(): true unless executeTfCommand rejects
validateCredentials(outcome) == Invocation(outcome, TRUE).ok

AuthenticationSection(outcome) ==
    Section("Authentication Status",
            [kind |-> IF validateCredentials(outcome) THEN "successful" ELSE "failed"])

WorkfoldStdouts == {<<>>, <<"W", "o", "r", "k", "s", "p", "a", "c", "e", ":", " ", "w">>}
HelpStdouts == {<<>>, <<"v", "1", "\n", "x">>}

SubQueryOutcomes(stdouts) ==
    {Closed(0, out, <<>>) : out \in stdouts}
        \cup {Closed(1, <<>>, <<"TF10139">>), SpawnError, SpawnThrow}

notDiagVars == <<filesetVars, watcherVars, historyVars, pure, exec, configVars, extraVars>>

\* generateDiagnosticsReport() up to its first await: the three sections
\* that query nothing, then `tf workfold` is spawned
generateDiagnosticsReport ==
    /\ diag.pc = "idle"
    /\ diag' = [diag EXCEPT !.pc = "workfold",
                            !.sections = SystemSection \o ConfigurationSection(config)
                                             \o EnvironmentSection(diag.env)]
    /\ UNCHANGED notDiagVars

\* `tf workfold` has answered: the workspace section, then `tf help` is spawned
WorkfoldDone(outcome) ==
    /\ diag.pc = "workfold"
    /\ diag' = [diag EXCEPT !.pc = "help",
                            !.sections = @ \o WorkspaceSection(outcome),
                            !.outcomes = Append(@, outcome)]
    /\ UNCHANGED notDiagVars

\* `tf help` has answered: the tool, pending-changes and history sections,
\* then `tf workspaces` is spawned
HelpDone(outcome) ==
    /\ diag.pc = "help"
    /\ diag' = [diag EXCEPT !.pc = "workspaces",
                            !.sections = @ \o ToolSection(outcome)
                                           \o PendingChangesSection(pendingChanges)
                                           \o HistorySection(commandHistory),
                            !.outcomes = Append(@, outcome)]
    /\ UNCHANGED notDiagVars

\* `tf workspaces` has answered: the authentication section, and the report
\* is returned
WorkspacesDone(outcome) ==
    /\ diag.pc = "workspaces"
    /\ diag' = [diag EXCEPT !.pc = "done",
                            !.sections = @ \o AuthenticationSection(outcome),
                            !.report = diag.sections \o AuthenticationSection(outcome),
                            !.returned = TRUE,
                            !.outcomes = Append(@, outcome)]
    /\ UNCHANGED notDiagVars

SubQueryDone ==
    \/ \E outcome \in SubQueryOutcomes(WorkfoldStdouts) : WorkfoldDone(outcome)
    \/ \E outcome \in SubQueryOutcomes(HelpStdouts) : HelpDone(outcome)
    \/ \E outcome \in SubQueryOutcomes({<<>>}) : WorkspacesDone(outcome)

\* a command history of n entries
HistoryOf(n) ==
    [i \in 1..n |-> [command |-> IF i % 2 = 0 THEN "view" ELSE "checkin",
                     timestamp |-> i,
                     success |-> i % 3 # 0]]

DiagFilesets ==
    { <<>>,
      <<[path |-> "a", status |-> "edit", isIncluded |-> TRUE],
        [path |-> "b", status |-> "add", isIncluded |-> FALSE]>> }

\* the environments a report is made in: credential variables unset, empty,
\* or set to one of two directories
DiagEnvs ==
    [VSINSTALLDIR : {Unset, [set |-> TRUE, value |-> <<>>],
                     [set |-> TRUE, value |-> <<"C", ":", "/", "v", "1">>],
                     [set |-> TRUE, value |-> <<"C", ":", "/", "v", "2">>]},
     VSSDK140Install : {Unset},
     DevEnvDir : {Unset, [set |-> TRUE, value |-> <<"C", ":", "/", "d">>]}]

DiagStart ==
    /\ pendingChanges \in DiagFilesets
    /\ fired = 0
    /\ disposed = FALSE
    /\ last = NoOp
    /\ snapshot = NoSnapshot
    /\ WatcherIdle
    /\ commandHistory \in {HistoryOf(0), HistoryOf(RecentCount - 7),
                           HistoryOf(RecentCount), HistoryOf(RecentCount + 2)}
    /\ appended = commandHistory
    /\ varied = 0
    /\ PureIdle /\ ExecIdle /\ ConfigIdle
    /\ diag \in {[NoReport EXCEPT !.env = env] : env \in DiagEnvs}
    /\ ExtraIdle

DiagNext == generateDiagnosticsReport \/ SubQueryDone

\* every spawned process ends
DiagSpec == DiagStart /\ [][DiagNext]_vars /\ WF_vars(SubQueryDone)

SectionTitles ==
    <<"System Information", "TFVC Configuration", "Visual Studio Environment",
      "Workspace Information", "TF Command-line Tool", "Pending Changes",
      "Recent Command History", "Authentication Status">>

C25_RecentHistoryIsLastTen ==
    diag.returned =>
        LET n == Len(commandHistory)
            k == IF n < 10 THEN n ELSE 10
            entries == diag.report[7].content.entries
        IN  /\ Len(entries) = k
            /\ \A i \in 1..k :
                  /\ entries[i].date = commandHistory[n - k + i].timestamp
                  /\ entries[i].command = commandHistory[n - k + i].command
                  /\ (entries[i].status = "check") = commandHistory[n - k + i].success
            /\ \A i \in 1..(k - 1) : entries[i].date < entries[i + 1].date
            /\ commandHistory = appended

\* C25 witness: a report over a history of twelve entries, some of them
\* failures.
C25_Witness ==
    /\ diag.returned
    /\ Len(commandHistory) = 12
    /\ Len(diag.report[7].content.entries) = 10
    /\ diag.report[7].content.entries[1].date = 3
    /\ diag.report[7].content.entries[1].status = "cross"

\* the same variables are present (set and non-empty) in both environments
SamePresence(e1, e2) ==
    \A name \in DOMAIN e1 :
        (e1[name].set /\ e1[name].value # <<>>) = (e2[name].set /\ e2[name].value # <<>>)

\* C31: the report discloses only whether each credential-environment
\* variable is present: a run in an environment that differs only in the
\* non-empty values of those variables gives the same environment section
C31_ReportShowsPresenceOnly ==
    diag.returned =>
        \A other \in DiagEnvs :
            SamePresence(diag.env, other) =>
                EnvironmentSection(other) = <<diag.report[3]>>

\* C38: the authentication section of the report shows success exactly when
\* the process of the `workspaces` probe ran and exited with code 0; a
\* non-zero exit and a process that cannot be spawned show failure
C38_ProbeFailureReported ==
    diag.returned =>
        LET o == diag.outcomes[Len(diag.outcomes)]
            shown == diag.report[Len(diag.report)]
        IN  /\ shown.title = "Authentication Status"
            /\ validateCredentials(o) = (o.event = "close" /\ o.code = 0)
            /\ (shown.content.kind = "successful") = (o.event = "close" /\ o.code = 0)

----------------------------------------------------------------------------
(* TfvcProvider operations and the command history *)

MaxOps == 2             \* TfvcProvider operations called in one run

\* The operations that run the tool once: the sub-command each one passes to
\* executeTfCommand, whether it passes suppressErrors, and whether its try
\* and catch blocks call recordCommand.
TfvcOperations ==
    [checkin               |-> [tool |-> "checkin",    suppress |-> FALSE, records |-> TRUE],
     createShelveset       |-> [tool |-> "shelve",     suppress |-> FALSE, records |-> TRUE],
     getHistory            |-> [tool |-> "history",    suppress |-> FALSE, records |-> TRUE],
     getBranches           |-> [tool |-> "branches",   suppress |-> FALSE, records |-> TRUE],
     getPreviousVersion    |-> [tool |-> "view",       suppress |-> FALSE, records |-> TRUE],
     getFileStatus         |-> [tool |-> "status",     suppress |-> FALSE, records |-> FALSE],
     checkoutFile          |-> [tool |-> "checkout",   suppress |-> FALSE, records |-> FALSE],
     getLatest             |-> [tool |-> "get",        suppress |-> FALSE, records |-> FALSE],
     merge                 |-> [tool |-> "merge",      suppress |-> FALSE, records |-> FALSE],
     applyShelveset        |-> [tool |-> "unshelve",   suppress |-> FALSE, records |-> FALSE],
     getWorkspaceInfo      |-> [tool |-> "workfold",   suppress |-> TRUE,  records |-> FALSE],
     validateCredentials   |-> [tool |-> "workspaces", suppress |-> TRUE,  records |-> FALSE],
     logEnvironmentDetails |-> [tool |-> "help",       suppress |-> TRUE,  records |-> FALSE]]

\* what the tool process of an operation can do
OperationOutcomes ==
    {Closed(0, <<>>, <<>>), Closed(1, <<>>, <<"TF10139">>), SpawnError, SpawnThrow}

\* an operation whose catch block does not record the failure
OperationRecordsSuccessOnly(op, outcome, history, now) ==
    LET d == TfvcOperations[op]
        r == Invocation(outcome, d.suppress)
        entry == [command |-> d.tool, timestamp |-> now, success |-> r.ok]
    IN  IF d.records /\ r.ok
        THEN [history |-> RecordResult(history, entry), pushed |-> <<entry>>]
        ELSE [history |-> history, pushed |-> <<>>]

\* one call of an operation whose tool process did `outcome`: the history it
\* leaves and the entries it pushed.  A recording operation calls
\* recordCommand(tool, true) after the awaited invocation and
\* recordCommand(tool, false) in its catch block.
OperationResult(op, outcome, history, now) ==
    LET d == TfvcOperations[op]
        r == Invocation(outcome, d.suppress)
        entry == [command |-> d.tool, timestamp |-> now, success |-> r.ok]
    IN  IF d.records
        THEN [history |-> RecordResult(history, entry), pushed |-> <<entry>>]
        ELSE [history |-> history, pushed |-> <<>>]

notOperationVars ==
    <<filesetVars, watcherVars, pure, exec, configVars, diag, userCommand,
      ext, probe, refreshes, merging>>

Operation(op, outcome) ==
    /\ operation.count < MaxOps
    /\ LET r == OperationResult(op, outcome, commandHistory, Len(appended) + 1)
       IN  /\ commandHistory' = r.history
           /\ appended' = appended \o r.pushed
    /\ operation' = [op |-> op, tool |-> TfvcOperations[op].tool,
                     count |-> operation.count + 1, before |-> commandHistory,
                     outcome |-> outcome]
    /\ UNCHANGED <<varied, notOperationVars>>

OperationStart == FilesetStart

OperationNext ==
    \E op \in DOMAIN TfvcOperations, outcome \in OperationOutcomes :
        Operation(op, outcome)

OperationSpec == OperationStart /\ [][OperationNext]_vars

\* the sub-commands the claim names as recorded
RecordedTools == {"checkin", "shelve", "history", "branches", "view"}

\* C24: each call of checkin, createShelveset, getHistory, getBranches and
\* the `view` query appends exactly one entry to the command history, whose
\* success flag is true exactly when the tool process ran and exited with
\* code 0; status, checkout, get, merge, unshelve, workfold, workspaces and
\* help append nothing
C24_OnlySignificantOperationsRecorded ==
    operation.op # "none" =>
        IF operation.tool \in RecordedTools
        THEN /\ Len(commandHistory) = Len(operation.before) + 1
             /\ SubSeq(commandHistory, 1, Len(operation.before)) = operation.before
             /\ commandHistory[Len(commandHistory)].command = operation.tool
             /\ commandHistory[Len(commandHistory)].success =
                    (operation.outcome.event = "close" /\ operation.outcome.code = 0)
        ELSE /\ operation.tool \in {"status", "checkout", "get", "merge", "unshelve",
                                    "workfold", "workspaces", "help"}
             /\ commandHistory = operation.before

\* C24 witness: a failed history query recorded after a checkout that left
\* no entry.
C24_Witness ==
    /\ operation.tool = "history"
    /\ operation.outcome.code = 1
    /\ operation.before = <<>>
    /\ operation.count = 2
    /\ Len(commandHistory) = 1
    /\ ~commandHistory[1].success

----------------------------------------------------------------------------
(* extension.ts: the check-in and create-shelveset commands *)

\* showInputBox resolves to undefined when the user cancels
Cancelled == "<undefined>"

\* what the user can answer to an input box
Answers == {Cancelled, "", "text"}

\* includedFiles.map(f => f.path)
PathsOf(files) == [i \in 1..Len(files) |-> files[i].path]

notCommandVars ==
    <<filesetVars, watcherVars, historyVars, pure, exec, configVars, diag,
      operation, ext, probe, refreshes, merging>>

\* what is left unchanged by a step of a command that touches neither the
\* fileset nor the history
notCommandStateVars ==
    <<watcherVars, pure, exec, configVars, diag, operation, ext, probe,
      refreshes, merging>>

\* a command handler up to its first await: it reads the included files,
\* returns with a warning when there are none, and else shows an input box
Begin(name) ==
    LET includedFiles == getIncludedFiles(pendingChanges)
    IN  [userCommand EXCEPT !.name = name,
                            !.includedFiles = includedFiles,
                            !.messages = IF Len(includedFiles) = 0
                                         THEN <<"warning">> ELSE <<>>,
                            !.pc = IF Len(includedFiles) = 0 THEN "warned"
                                   ELSE "prompt"]

checkinCommand ==
    /\ userCommand.pc = "idle"
    /\ userCommand' = Begin("checkin")
    /\ UNCHANGED notCommandVars

createShelvesetCommand ==
    /\ userCommand.pc = "idle"
    /\ userCommand' = Begin("createShelveset")
    /\ UNCHANGED notCommandVars

\* the tool is started with the paths read before the prompts; `included`
\* keeps the paths FilesetManager holds as included at that moment
Invoke(c) ==
    [c EXCEPT !.pc = "invoked",
              !.files = PathsOf(c.includedFiles),
              !.included = PathsOf(getIncludedFiles(pendingChanges))]

\* the continuation of a command handler after an input box is answered:
\* check-in asks for a comment and goes on unless it was cancelled,
\* create-shelveset asks for a name, then for a comment, and goes on when
\* both are non-empty
showInputBox(answer) ==
    /\ userCommand.pc = "prompt"
    /\ userCommand' =
          LET c == [userCommand EXCEPT !.answers = Append(@, answer)]
              truthy(a) == a \notin {Cancelled, ""}
          IN  IF c.name = "checkin"
              THEN IF answer # Cancelled THEN Invoke(c)
                   ELSE [c EXCEPT !.pc = "returned"]
              ELSE IF Len(c.answers) < 2 THEN c
                   ELSE IF truthy(c.answers[1]) /\ truthy(c.answers[2])
                        THEN Invoke(c)
                        ELSE [c EXCEPT !.pc = "returned"]
    /\ UNCHANGED notCommandVars

\* the operation of TfvcProvider a command awaits
OperationOf(name) == IF name = "checkin" THEN "checkin" ELSE "createShelveset"

\* a command handler that refreshes whether or not its operation succeeded
AfterOperationRefreshAlways(c, ok) ==
    IF ok
    THEN [c EXCEPT !.tool = "ok", !.messages = Append(@, "information"),
                   !.refresh = "issued", !.pc = "refreshing"]
    ELSE [c EXCEPT !.tool = "failed", !.messages = Append(@, "error"),
                   !.refresh = "issued", !.pc = "refreshing"]

\* a command handler after its awaited operation: when the operation
\* resolved, the information message is shown and refreshPendingChanges is
\* called; when it was rejected, the catch block shows the error message
AfterOperation(c, ok) ==
    IF ok
    THEN [c EXCEPT !.tool = "ok", !.messages = Append(@, "information"),
                   !.refresh = "issued", !.pc = "refreshing"]
    ELSE [c EXCEPT !.tool = "failed", !.messages = Append(@, "error"),
                   !.pc = "returned"]

\* the tool process of the command's operation ends with `outcome`: the
\* operation records the command and the handler goes on
ToolDone(outcome) ==
    /\ userCommand.pc = "invoked"
    /\ LET op == OperationOf(userCommand.name)
           r == OperationResult(op, outcome, commandHistory, Len(appended) + 1)
       IN  /\ commandHistory' = r.history
           /\ appended' = appended \o r.pushed
           /\ userCommand' = AfterOperation(userCommand, Invocation(outcome, FALSE).ok)
    /\ UNCHANGED <<filesetVars, varied, notCommandStateVars>>

\* the refresh a command awaits ends: with the parsed changes handed to
\* setPendingChanges, or rejected, which the catch block of the handler
\* reports
CommandRefreshDone(ok, changes) ==
    /\ userCommand.pc = "refreshing"
    /\ IF ok
       THEN /\ Apply(SetPendingChangesResult(changes), "setPendingChanges", "", FALSE, changes)
            /\ UNCHANGED disposed
            /\ userCommand' = [userCommand EXCEPT !.refresh = "resolved", !.pc = "returned"]
       ELSE /\ UNCHANGED filesetVars
            /\ userCommand' = [userCommand EXCEPT !.refresh = "rejected",
                                  !.messages = Append(@, "error"), !.pc = "returned"]
    /\ UNCHANGED <<historyVars, notCommandStateVars>>

\* the lists a refresh hands to setPendingChanges while a prompt is open:
\* edited files, as the status parser yields them
RefreshedChanges ==
    SeqsUpTo([path : Paths, status : {"edit"}, isIncluded : {TRUE}], MaxChanges)

CommandStart == FilesetStart

CommandNext ==
    \/ \E changes \in RefreshedChanges : setPendingChanges(changes)
    \/ \E p \in Paths : toggleFileInclusion(p)
    \/ \E p \in Paths, included \in BOOLEAN : setFileInclusion(p, included)
    \/ clear
    \/ checkinCommand
    \/ createShelvesetCommand
    \/ \E answer \in Answers : showInputBox(answer)
    \/ \E outcome \in CheckoutOutcomes \cup {SpawnThrow} : ToolDone(outcome)
    \/ \E changes \in RefreshedChanges : CommandRefreshDone(TRUE, changes)
    \/ CommandRefreshDone(FALSE, <<>>)

CommandSpec == CommandStart /\ [][CommandNext]_vars

\* C22: the paths the check-in and create-shelveset commands pass to the tool
\* are exactly the paths whose inclusion flag is true in FilesetManager at
\* the moment the tool is invoked.
C22_ToolGetsIncludedAtInvocation ==
    userCommand.pc = "invoked" => userCommand.files = userCommand.included

\* C36: the check-in command starts the tool only if it found at least one
\* included file when it was run and the comment prompt was not cancelled;
\* it issues a refresh exactly when the check-in has succeeded, and a failed
\* check-in shows an error message and issues no refresh
C36_CheckinThenRefresh ==
    userCommand.name = "checkin" =>
        /\ userCommand.tool # "none" \/ userCommand.pc = "invoked"
              => /\ Len(userCommand.includedFiles) >= 1
                 /\ userCommand.files = PathsOf(userCommand.includedFiles)
                 /\ userCommand.answers # <<>>
                 /\ userCommand.answers[Len(userCommand.answers)] # Cancelled
        /\ userCommand.pc \in {"warned", "prompt"} => userCommand.tool = "none"
        /\ (userCommand.pc = "returned" /\ userCommand.answers # <<>>
              /\ userCommand.answers[Len(userCommand.answers)] = Cancelled)
              => userCommand.tool = "none" /\ userCommand.files = <<>>
        /\ userCommand.refresh # "none" <=> userCommand.tool = "ok"
        /\ userCommand.tool = "failed"
              => /\ userCommand.messages = <<"error">>
                 /\ userCommand.refresh = "none"
                 /\ userCommand.pc = "returned"

\* a check-in with an empty comment that failed and was reported, and whose
\* entry is in the command history
C36_Witness ==
    /\ userCommand.name = "checkin"
    /\ userCommand.answers = <<"">>
    /\ userCommand.tool = "failed"
    /\ userCommand.messages = <<"error">>
    /\ userCommand.refresh = "none"
    /\ commandHistory # <<>> /\ ~commandHistory[Len(commandHistory)].success

----------------------------------------------------------------------------
(* FilesetManager: an array returned by a getter, and later operations *)

\* the array a getter returns
Returned(getter, m) ==
    IF getter = "getIncludedFiles" THEN getIncludedFiles(m)
    ELSE IF getter = "getExcludedFiles" THEN getExcludedFiles(m)
    ELSE getAllFiles(m)

\* a caller calls a getter and keeps the array: Array.from(values()) is a new
\* array whose elements are the objects stored in the map
takeSnapshot(getter) ==
    /\ ~snapshot.taken
    /\ snapshot' =
          LET files == Returned(getter, pendingChanges)
          IN  [taken |-> TRUE, getter |-> getter, returned |-> files,
               now |-> files, live |-> {files[i].path : i \in 1..Len(files)}]
    /\ UNCHANGED <<pendingChanges, fired, disposed, last, watcherVars,
                   historyVars, restVars>>

SnapshotStart == FilesetStart

SnapshotNext ==
    \/ \E changes \in RefreshedChanges : setPendingChanges(changes)
    \/ \E p \in Paths : toggleFileInclusion(p)
    \/ \E p \in Paths, included \in BOOLEAN : setFileInclusion(p, included)
    \/ clear
    \/ \E getter \in {"getIncludedFiles", "getExcludedFiles", "getAllFiles"} :
           takeSnapshot(getter)

SnapshotSpec == SnapshotStart /\ [][SnapshotNext]_vars

\* C27: the array a getter returned keeps its members and their field
\* values (path, status, isIncluded) whatever toggleFileInclusion,
\* setFileInclusion, setPendingChanges or clear do afterwards
C27_GetterResultsAreSnapshots ==
    snapshot.taken => snapshot.now = snapshot.returned

----------------------------------------------------------------------------
(* TfvcProvider: the collection URL and the environment of the tool *)

MaxInvocations == 2     \* tool invocations made after the constructor in one run

\* stdout texts of `tf workfold`
Out_Https == <<"C", "o", "l", "l", "e", "c", "t", "i", "o", "n", ":", " ", "h", "t", "t", "p", "s", ":", "/", "/", "s", "/", "c", "\r", "\n", "W">>
Out_UpperHttp == <<"C", "O", "L", "L", "E", "C", "T", "I", "O", "N", ":", " ", "H", "T", "T", "P", ":", "/", "/", "S">>
Out_Ftp == <<"C", "o", "l", "l", "e", "c", "t", "i", "o", "n", ":", " ", "f", "t", "p", ":", "/", "/", "s">>
Out_NoHost == <<"C", "o", "l", "l", "e", "c", "t", "i", "o", "n", ":", " ", "h", "t", "t", "p", ":", "/", "/", " ", "x">>
Out_NoSpace == <<"C", "o", "l", "l", "e", "c", "t", "i", "o", "n", ":", "h", "t", "t", "p", ":", "/", "/", "s">>
Out_Second == <<"x", " ", "C", "o", "l", "l", "e", "c", "t", "i", "o", "n", ":", " ", "h", "t", "t", "p", ":", "/", "/", "a", " ", "C", "o", "l", "l", "e", "c", "t", "i", "o", "n", ":", " ", "h", "t", "t", "p", "s", ":", "/", "/", "b">>

ProbeStdouts == {<<>>, Out_Https, Out_UpperHttp, Out_Ftp, Out_NoHost, Out_NoSpace, Out_Second}

Url_Https == <<"h", "t", "t", "p", "s", ":", "/", "/", "s", "/", "c">>
Url_UpperHttp == <<"H", "T", "T", "P", ":", "/", "/", "S">>
Url_First == <<"h", "t", "t", "p", ":", "/", "/", "a">>

Label_Collection == <<"c", "o", "l", "l", "e", "c", "t", "i", "o", "n", ":", " ">>
Pattern_Http == <<"c", "o", "l", "l", "e", "c", "t", "i", "o", "n", ":", " ", "h", "t", "t", "p", ":", "/", "/">>
Pattern_Https == <<"c", "o", "l", "l", "e", "c", "t", "i", "o", "n", ":", " ", "h", "t", "t", "p", "s", ":", "/", "/">>

\* the longest run of non-whitespace characters of s that starts at i
RECURSIVE NonSpaceRun(_, _)
NonSpaceRun(s, i) ==
    IF i > Len(s) \/ IsSpace(s[i]) THEN <<>> ELSE <<s[i]>> \o NonSpaceRun(s, i + 1)

\* pat, in lower case, is at position i of s, letters compared without case
MatchesAt(s, i, pat) ==
    /\ i + Len(pat) - 1 <= Len(s)
    /\ ToLowerCase(SubSeq(s, i, i + Len(pat) - 1)) = pat

\* the length of the text `Collection: http(s)://` at position i of s,
\* 0 if it is not there
SchemeAt(s, i) ==
    IF MatchesAt(s, i, Pattern_Https) THEN Len(Pattern_Https)
    ELSE IF MatchesAt(s, i, Pattern_Http) THEN Len(Pattern_Http)
    ELSE 0

\* /Collection: (https?:\/\/[^\s]+)/i.exec(s): whether it matched and group 1
\* of the leftmost match
CollectionMatch(s) ==
    LET starts == {i \in 1..Len(s) :
                      /\ SchemeAt(s, i) > 0
                      /\ NonSpaceRun(s, i + SchemeAt(s, i)) # <<>>}
    IN  IF starts = {}
        THEN [matched |-> FALSE, url |-> <<>>]
        ELSE LET i == CHOOSE j \in starts : \A k \in starts : j <= k
             IN  [matched |-> TRUE, url |-> NonSpaceRun(s, i + Len(Label_Collection))]

\* process.env[name] || ''
OrEmpty(v) == [set |-> TRUE, value |-> IF v.set THEN v.value ELSE <<>>]

\* the environments the extension host can run in
ProcessEnvs ==
    [TF_COLLECTION_URL : {Unset, [set |-> TRUE, value |-> <<"o", "l", "d">>]},
     VSINSTALLDIR : {Unset, [set |-> TRUE, value |-> <<"v", "s">>]}]

\* getEnvironmentForTf() that never adds the collection URL
getEnvironmentInherited(processEnv, useVsCredentials, collectionUrl) ==
    IF useVsCredentials
    THEN [processEnv EXCEPT !.VSINSTALLDIR = OrEmpty(@)]
    ELSE processEnv

\* getEnvironmentForTf(): a copy of process.env, the Visual Studio variables
\* when useVsCredentials is set, TF_COLLECTION_URL when collectionUrl is
\* neither undefined nor empty
getEnvironmentForTf(processEnv, useVsCredentials, collectionUrl) ==
    LET env == IF useVsCredentials
               THEN [processEnv EXCEPT !.VSINSTALLDIR = OrEmpty(@)]
               ELSE processEnv
    IN  IF collectionUrl # <<>>
        THEN [env EXCEPT !.TF_COLLECTION_URL = [set |-> TRUE, value |-> collectionUrl]]
        ELSE env

\* what the `tf workfold` process of the probe can do
ProbeOutcomes ==
    {Closed(0, out, <<>>) : out \in ProbeStdouts}
        \cup {Closed(1, Out_UpperHttp, <<"TF10139">>), Closed(1, <<>>, <<"TF10139">>),
              SpawnError, SpawnThrow}

\* the invocations made later: a status query, and the `workfold` query of
\* getWorkspaceInfo
LaterTools == {"status", "workfold"}

LaterOutcomes == {Closed(0, Out_Second, <<>>), Closed(1, <<>>, <<"TF10139">>), SpawnThrow}

notProbeVars ==
    <<filesetVars, watcherVars, historyVars, pure, exec, configVars, diag,
      userCommand, operation, ext, refreshes, merging>>

\* one executeTfCommand call: the environment it hands to spawn; `detected`
\* keeps whether the probe had matched before
Spawn_(pr, tool, outcome) ==
    [pr EXCEPT !.tool = tool,
               !.outcome = outcome,
               !.detected = pr.matched,
               !.env = getEnvironmentForTf(pr.processEnv, pr.useVsCredentials,
                                           pr.collectionUrl)]

\* the constructor calls initializeCollectionUrl(), which runs up to its
\* await: `tf workfold` is spawned
StartProbe ==
    /\ probe.pc = "constructed"
    /\ probe' = [Spawn_(probe, "workfold", probe.outcome) EXCEPT !.pc = "probing"]
    /\ UNCHANGED notProbeVars

\* initializeCollectionUrl() after its await: the probe's process did
\* `outcome`; collectionUrl is assigned on a match and left alone otherwise
initializeCollectionUrl(outcome) ==
    /\ probe.pc = "probing"
    /\ LET r == Invocation(outcome, TRUE)
           m == CollectionMatch(r.stdout)
       IN  probe' = [probe EXCEPT
                        !.pc = "settled",
                        !.probed = outcome,
                        !.matched = r.ok /\ m.matched,
                        !.url = IF r.ok /\ m.matched THEN m.url ELSE @,
                        !.collectionUrl = IF r.ok /\ m.matched THEN m.url ELSE @]
    /\ UNCHANGED notProbeVars

\* any later executeTfCommand call, the workfold query of getWorkspaceInfo
\* included, whatever its process does
RunTool(tool, outcome) ==
    /\ probe.pc \in {"probing", "settled"}
    /\ probe.count < MaxInvocations
    /\ probe' = [Spawn_(probe, tool, outcome) EXCEPT !.count = @ + 1]
    /\ UNCHANGED notProbeVars

NoOutcome == [event |-> "none", code |-> 0, stdout |-> <<>>, stderr |-> <<>>]

UrlStart ==
    /\ FilesetInit /\ WatcherIdle /\ HistoryIdle /\ PureIdle /\ ExecIdle
    /\ ConfigIdle /\ DiagIdle
    /\ userCommand = NoCommand
    /\ operation = NoCall
    /\ ext = NotActivated
    /\ refreshes = <<>>
    /\ merging = NoMerge
    /\ probe \in [pc : {"constructed"}, processEnv : ProcessEnvs,
                   useVsCredentials : BOOLEAN, collectionUrl : {<<>>},
                   matched : {FALSE}, url : {<<>>}, probed : {NoOutcome},
                   tool : {"none"}, outcome : {NoOutcome}, detected : {FALSE},
                   env : {[TF_COLLECTION_URL |-> Unset, VSINSTALLDIR |-> Unset]},
                   count : {0}]

UrlNext ==
    \/ StartProbe
    \/ \E outcome \in ProbeOutcomes : initializeCollectionUrl(outcome)
    \/ \E tool \in LaterTools, outcome \in LaterOutcomes : RunTool(tool, outcome)

UrlSpec == UrlStart /\ [][UrlNext]_vars

\* the URL each probe output announces, <<>> if it announces none
AnnouncedUrl(out) ==
    IF out = Out_Https THEN Url_Https
    ELSE IF out = Out_UpperHttp THEN Url_UpperHttp
    ELSE IF out = Out_Second THEN Url_First
    ELSE <<>>

----------------------------------------------------------------------------
(* TfvcProvider.refreshPendingChanges: overlapping refreshes *)

MaxRefreshes == 2

Out_EditA_AddB == <<"e", "d", "i", "t", " ", "a", "\n", "a", "d", "d", " ", "b">>
Out_AddB_EditC == <<"a", "d", "d", " ", "b", "\n", "e", "d", "i", "t", " ", "c", "\n", "g", "a", "r", "b", "a", "g", "e">>

\* outputs of `status /format:detailed` in the overlapping refreshes
OverlapStdouts == {<<>>, Out_EditA_AddB, Out_AddB_EditC}

OverlapOutcomes ==
    {Closed(0, out, <<>>) : out \in OverlapStdouts}
        \cup {Closed(1, <<>>, <<"TF10139">>), SpawnError, SpawnThrow}

\* the paths the outputs name
OverlapPaths == {<<"a">>, <<"b">>, <<"c">>}

\* refreshPendingChanges that empties the fileset when the status command fails
RefreshClearOnFailure(r) ==
    IF r.ok
    THEN [replaced |-> TRUE, fileset |-> SetPendingChangesResult(parsePendingChanges(r.stdout)),
          changes |-> parsePendingChanges(r.stdout), result |-> "resolved", errors |-> r.errors]
    ELSE [replaced |-> TRUE, fileset |-> SetPendingChangesResult(<<>>),
          changes |-> <<>>, result |-> "rejected", errors |-> r.errors + 1]

\* refreshPendingChanges on the result r of its status command: the try
\* block parses stdout and replaces the fileset; the catch block logs one
\* error and rethrows
RefreshResult(r) ==
    IF r.ok
    THEN [replaced |-> TRUE, fileset |-> SetPendingChangesResult(parsePendingChanges(r.stdout)),
          changes |-> parsePendingChanges(r.stdout), result |-> "resolved", errors |-> r.errors]
    ELSE [replaced |-> FALSE, fileset |-> Untouched(pendingChanges),
          changes |-> <<>>, result |-> "rejected", errors |-> r.errors + 1]

notRefreshVars ==
    <<watcherVars, historyVars, pure, exec, configVars, diag, userCommand,
      operation, ext, probe, merging>>

InFlightRefreshes == {i \in 1..Len(refreshes) : refreshes[i].pc = "status"}

\* refreshPendingChanges up to its await: the status command is spawned
refreshPendingChanges ==
    /\ Len(refreshes) < MaxRefreshes
    /\ refreshes' = Append(refreshes,
           [pc |-> "status", result |-> "pending", ok |-> FALSE, stdout |-> <<>>,
            errors |-> 0, overlapped |-> InFlightRefreshes # {},
            toggled |-> FALSE, found |-> <<>>, fires |-> 0])
    /\ UNCHANGED <<filesetVars, notRefreshVars>>

\* the status command of refresh i ends with `outcome`: the rest of
\* refreshPendingChanges runs
StatusCompleted(i, outcome) ==
    /\ i \in InFlightRefreshes
    /\ LET r == Invocation(outcome, FALSE)
           res == RefreshResult(r)
       IN  /\ IF res.replaced
              THEN /\ Apply(res.fileset, "setPendingChanges", "", FALSE, res.changes)
                   /\ UNCHANGED disposed
              ELSE UNCHANGED filesetVars
           /\ refreshes' = [refreshes EXCEPT ![i] =
                  [@ EXCEPT !.pc = "done", !.result = res.result, !.ok = r.ok,
                            !.stdout = r.stdout, !.errors = res.errors,
                            !.found = pendingChanges,
                            !.fires = IF res.replaced THEN res.fileset.fired ELSE 0]]
    /\ UNCHANGED notRefreshVars

\* FilesetManager.toggleFileInclusion(p) while refreshes may be in flight
ToggleInFlight(p) ==
    /\ Apply(ToggleFileInclusionResult(pendingChanges, p), "toggleFileInclusion", p, FALSE, <<>>)
    /\ UNCHANGED disposed
    /\ refreshes' = [i \in 1..Len(refreshes) |->
           IF i \in InFlightRefreshes /\ MapHas(pendingChanges, p)
           THEN [refreshes[i] EXCEPT !.toggled = TRUE]
           ELSE refreshes[i]]
    /\ UNCHANGED notRefreshVars

RefreshStart == FilesetStart

RefreshNext ==
    \/ refreshPendingChanges
    \/ \E i \in 1..MaxRefreshes, outcome \in OverlapOutcomes : StatusCompleted(i, outcome)
    \/ \E p \in OverlapPaths : ToggleInFlight(p)

RefreshSpec == RefreshStart /\ [][RefreshNext]_vars

\* refresh i resolves in this step
Resolves(i) ==
    /\ i \in InFlightRefreshes
    /\ refreshes'[i].result = "resolved"

\* C34: when a refresh completes, the fileset is the whole parse of the
\* status output of that refresh and of no other, and every inclusion flag
\* is true, whatever was toggled while the refresh was in flight
C34_RefreshReplacesWhole ==
    [][\A i \in 1..Len(refreshes) :
          Resolves(i) =>
              /\ pendingChanges' = SetEach(<<>>, parsePendingChanges(refreshes'[i].stdout))
              /\ \A k \in 1..Len(pendingChanges') : pendingChanges'[k].isIncluded]_vars

\* two refreshes overlapped, the earlier completion installed another output,
\* a flag was turned off while the later refresh was in flight, and that
\* refresh has just replaced the fileset
C34_Witness ==
    \E i, j \in 1..Len(refreshes) :
        /\ i # j
        /\ refreshes[i].result = "resolved" /\ refreshes[j].result = "resolved"
        /\ refreshes[i].overlapped \/ refreshes[j].overlapped
        /\ refreshes[i].toggled
        /\ refreshes[i].stdout # <<>> /\ refreshes[j].stdout # <<>>
        /\ refreshes[i].stdout # refreshes[j].stdout
        /\ \E k \in 1..Len(refreshes[i].found) : ~refreshes[i].found[k].isIncluded
        /\ last.op = "setPendingChanges"
        /\ pendingChanges = SetEach(<<>>, parsePendingChanges(refreshes[i].stdout))

\* C35: when the status command of a refresh fails, the fileset is left as
\* it was, nothing is fired, and the call is rejected
C35_FailedRefreshLeavesFileset ==
    [][\A i \in 1..Len(refreshes) :
          (i \in InFlightRefreshes /\ ~refreshes'[i].ok /\ refreshes'[i].pc = "done") =>
              /\ pendingChanges' = pendingChanges
              /\ refreshes'[i].fires = 0
              /\ fired' = fired /\ last' = last
              /\ refreshes'[i].result = "rejected"]_vars

\* a refresh failed while the fileset held entries, one of them excluded
C35_Witness ==
    \E i \in 1..Len(refreshes) :
        /\ refreshes[i].result = "rejected"
        /\ refreshes[i].found # <<>>
        /\ \E k \in 1..Len(refreshes[i].found) : ~refreshes[i].found[k].isIncluded
        /\ pendingChanges = refreshes[i].found

----------------------------------------------------------------------------
(* TfvcProvider.merge: getLatest, then the merge command *)

Branches == {"$/main", "$/dev", "$/rel"}

\* what the tool process of `get` or `merge` may do
MergeOutcomes ==
    {Closed(0, <<>>, <<>>), Closed(0, <<"o", "k">>, <<>>),
     Closed(1, <<>>, <<"TF10139">>), SpawnError, SpawnThrow}

\* merge() that goes on to the merge command whatever getLatest did
AfterGetLatestMergeAnyway(m, r) ==
    [m EXCEPT !.pc = "merge", !.got = r.ok, !.errors = @ + r.errors,
              !.runs = Append(@, <<"merge", m.sourceBranch, m.targetBranch, "/recursive">>)]

\* merge() after `await this.getLatest()`: getLatest resolved and the merge
\* command is spawned, or getLatest logged and rethrew the failure and the
\* catch block of merge logs and rethrows it
AfterGetLatest(m, r) ==
    IF r.ok
    THEN [m EXCEPT !.pc = "merge", !.got = TRUE, !.errors = @ + r.errors,
                   !.runs = Append(@, <<"merge", m.sourceBranch, m.targetBranch, "/recursive">>)]
    ELSE [m EXCEPT !.pc = "done", !.result = "rejected", !.errors = @ + r.errors + 2]

\* merge() after the awaited merge command
AfterMergeCommand(m, r) ==
    IF r.ok
    THEN [m EXCEPT !.pc = "done", !.result = "resolved", !.errors = @ + r.errors]
    ELSE [m EXCEPT !.pc = "done", !.result = "rejected", !.errors = @ + r.errors + 1]

notMergeVars ==
    <<filesetVars, watcherVars, historyVars, pure, exec, configVars, diag,
      userCommand, operation, ext, probe, refreshes>>

\* merge(sourceBranch, targetBranch) up to the await inside getLatest
merge(sourceBranch, targetBranch) ==
    /\ merging.pc = "none"
    /\ merging' = [pc |-> "get", sourceBranch |-> sourceBranch,
                   targetBranch |-> targetBranch,
                   runs |-> << <<"get", "/recursive">> >>,
                   got |-> FALSE, getOutcome |-> NoOutcome,
                   mergeOutcome |-> NoOutcome,
                   result |-> "pending", errors |-> 0]
    /\ UNCHANGED notMergeVars

\* the process of `get /recursive` ends
GetLatestDone(outcome) ==
    /\ merging.pc = "get"
    /\ merging' = [AfterGetLatest(merging, Invocation(outcome, FALSE))
                      EXCEPT !.getOutcome = outcome]
    /\ UNCHANGED notMergeVars

\* the process of `merge src dst /recursive` ends
MergeCommandDone(outcome) ==
    /\ merging.pc = "merge"
    /\ merging' = [AfterMergeCommand(merging, Invocation(outcome, FALSE))
                      EXCEPT !.mergeOutcome = outcome]
    /\ UNCHANGED notMergeVars

MergeStart == FilesetStart

MergeNext ==
    \/ \E sourceBranch, targetBranch \in Branches : merge(sourceBranch, targetBranch)
    \/ \E outcome \in MergeOutcomes : GetLatestDone(outcome)
    \/ \E outcome \in MergeOutcomes : MergeCommandDone(outcome)

MergeSpec == MergeStart /\ [][MergeNext]_vars

\* the process of outcome o ran and exited with code 0
ExitedZero(o) == o.event = "close" /\ o.code = 0

\* C37: the first command of merge(src, dst) is `get /recursive`; the command
\* `merge src dst /recursive` is started only after that get has exited with
\* code 0; when the get fails no merge command is started and merge() is
\* rejected
C37_MergeAfterSuccessfulGet ==
    merging.pc # "none" =>
        /\ merging.runs[1] = <<"get", "/recursive">>
        /\ Len(merging.runs) <= 2
        /\ Len(merging.runs) = 2 =>
              /\ merging.runs[2] = <<"merge", merging.sourceBranch,
                                     merging.targetBranch, "/recursive">>
              /\ ExitedZero(merging.getOutcome)
        /\ (merging.pc # "get" /\ ~ExitedZero(merging.getOutcome)) =>
              /\ Len(merging.runs) = 1
              /\ merging.pc = "done"
              /\ merging.result = "rejected"
        /\ (merging.pc # "get" /\ ExitedZero(merging.getOutcome)) =>
              Len(merging.runs) = 2

\* a merge whose get exited with a non-zero code
C37_Witness ==
    /\ merging.pc = "done"
    /\ merging.getOutcome.event = "close" /\ merging.getOutcome.code = 1
    /\ merging.result = "rejected"
    /\ merging.sourceBranch # merging.targetBranch

====
